---- MODULE Spec2Model ----
(***************************************************************************)
(* Model of the NWM artifact-resolution engine of fpe_lite: version        *)
(* resolution and configuration catalog (admin.py), reference-time         *)
(* scheduling (reftime.py), manifest builders, the latest-analysis         *)
(* splicer and the manifest chunker (files.py).                            *)
(*                                                                         *)
(* Datetimes are minutes since 2021-01-01T00:00Z.  A date directory        *)
(* "nwm.YYYYMMDD" is the day number since 2021-01-01, a reference hour     *)
(* string "tHHz" is the hour 0..23, and a timestep string is the tuple of  *)
(* its fields: <<"tm", hours>> / <<"f", hours>>, with a third field when   *)
(* the minutes are appended.  Timestep intervals (timestep_int, in hours   *)
(* and possibly fractional in the source) are held in minutes.             *)
(***************************************************************************)
EXTENDS Integers, Sequences, FiniteSets, TLC

VARIABLES call, ret

vars == <<call, ret>>

----------------------------------------------------------------------------
(* datetime arithmetic *)

\* datetime.hour, datetime.minute, and the date part of a datetime
Hour(t) == (t \div 60) % 24
Minute(t) == t % 60
DateOf(t) == t \div (24 * 60)

\* timedelta(hours = h), timedelta(days = d)
Hours(h) == h * 60
Days(d) == d * 24 * 60

\* lengths of the months of 2021 and 2022 (neither is a leap year)
MonthLen == <<31, 28, 31, 30, 31, 30, 31, 31, 30, 31, 30, 31>>


RECURSIVE SumMonths(_)
SumMonths(m) == IF m = 0 THEN 0 ELSE MonthLen[m] + SumMonths(m - 1)

\* datetime(y, m, d, h, 0, 0) for y in 2021..2022
DT(y, m, d, h) ==
    Days((y - 2021) * 365 + SumMonths(m - 1) + (d - 1)) + Hours(h)

\* month (1..12) and day of the month (1..31) of a day number
DayOfYear(day) == day % 365
MonthOfDay(day) ==
    CHOOSE m \in 1..12 :
        SumMonths(m - 1) <= DayOfYear(day) /\ DayOfYear(day) < SumMonths(m)
DayOfMonth(day) == DayOfYear(day) - SumMonths(MonthOfDay(day) - 1) + 1

\* t.replace(hour = h) for t with minute, second = 0
ReplaceHour(t, h) == Days(DateOf(t)) + Hours(h) + Minute(t)

\* missing datetime (pandas NaT) and missing cell (NaN)
NaT == 0 - 1
NaN == "NaN"

----------------------------------------------------------------------------
(* admin.py *)

Domains == {"conus", "hawaii", "puertorico"}
Configs == {"short_range", "medium_range", "analysis_assim",
            "analysis_assim_extend", "latest_ana"}

\* versions 2.0, 2.1, 2.2 held as tenths
V20 == 20
V21 == 21
V22 == 22

nwm_version(ref_time) ==
    LET v21_date == DT(2021, 4, 20, 14)
        v22_date == DT(2022, 7, 9, 0)
    IN  IF ref_time >= v22_date THEN V22
        ELSE IF ref_time >= v21_date THEN V21
        ELSE V20

\* raised ValueError / KeyError
Error(kind) == [ok |-> FALSE, err |-> kind]

ConfigRow(dur, ts, rpd, base, fc) ==
    [ok |-> TRUE, dir_suffix |-> "", var_str_suffix |-> "",
     duration_hrs |-> dur, timestep_int |-> ts,
     runs_per_day |-> rpd, base_run_hour |-> base, is_forecast |-> fc]

WithSuffix(row, dir_suffix, var_str_suffix) ==
    [row EXCEPT !.dir_suffix = dir_suffix, !.var_str_suffix = var_str_suffix]

\* faulty variant of config_specs: every domain is given the rows of conus,
\* whatever the version
ConfigSpecsOfConus(config0, domain, version) ==
    CASE config0 = "short_range" -> ConfigRow(18, 60, 24, 0, TRUE)
      [] config0 = "medium_range" ->
             WithSuffix(ConfigRow(240, 60, 4, 0, TRUE), "_mem1", "_1")
      [] config0 = "analysis_assim_extend" -> ConfigRow(28, 60, 1, 16, FALSE)
      [] OTHER -> ConfigRow(3, 60, 24, 0, FALSE)

\* config_specs(config, domain, version).loc[config]; timestep_int in minutes
config_specs(config0, domain, version) ==
    LET config == IF config0 = "latest_ana" THEN "analysis_assim" ELSE config0
    IN  CASE domain = "conus" ->
               CASE config = "short_range" -> ConfigRow(18, 60, 24, 0, TRUE)
                 [] config = "medium_range" ->
                        WithSuffix(ConfigRow(240, IF version < V21 THEN 180 ELSE 60,
                                             4, 0, TRUE), "_mem1", "_1")
                 [] config = "analysis_assim" -> ConfigRow(3, 60, 24, 0, FALSE)
                 [] config = "analysis_assim_extend" -> ConfigRow(28, 60, 1, 16, FALSE)
                 [] OTHER -> Error("KeyError")
          [] domain = "hawaii" ->
               IF config \in {"medium_range", "long_range", "analysis_assim_extend"}
               THEN Error("ConfigNotInDomain")
               ELSE CASE config = "short_range" ->
                            WithSuffix(IF version = V20
                                       THEN ConfigRow(60, 60, 4, 0, TRUE)
                                       ELSE ConfigRow(48, 15, 2, 0, TRUE),
                                       "_hawaii", "")
                      [] config = "analysis_assim" ->
                            WithSuffix(IF version = V20
                                       THEN ConfigRow(3, 60, 24, 0, FALSE)
                                       ELSE ConfigRow(3, 15, 24, 0, FALSE),
                                       "_hawaii", "")
                      [] OTHER -> Error("KeyError")
          [] domain = "puertorico" ->
               IF config \in {"medium_range", "long_range", "analysis_assim_extend"}
               THEN Error("ConfigNotInDomain")
               ELSE IF version < V21 THEN Error("DomainNotInVersion")
               ELSE CASE config = "short_range" ->
                            WithSuffix(ConfigRow(48, 60, 2, 6, TRUE), "_puertorico", "")
                      [] config = "analysis_assim" ->
                            WithSuffix(ConfigRow(3, 60, 24, 0, FALSE), "_puertorico", "")
                      [] OTHER -> Error("KeyError")
          [] OTHER -> Error("UnboundLocalError")

\* the ensemble members of medium_range and their suffixes:
\* "_mem" + str(member) and "_" + str(member)
Members == 1..7
MemDirSuffix == <<"_mem1", "_mem2", "_mem3", "_mem4", "_mem5", "_mem6", "_mem7">>
MemVarSuffix == <<"_1", "_2", "_3", "_4", "_5", "_6", "_7">>

\* config_specs(config, domain, version, member): the frame returned, as the
\* sequence of its rows
config_specs_of_member(config0, domain, version, member) ==
    LET row == config_specs(config0, domain, version)
    IN  IF ~row.ok THEN row
        ELSE IF domain = "conus" /\ config0 = "medium_range" /\ member > 1
        THEN [ok |-> TRUE,
              rows |-> <<WithSuffix([row EXCEPT !.duration_hrs = 204],
                                    MemDirSuffix[member],
                                    MemVarSuffix[member])>>]
        ELSE [ok |-> TRUE, rows |-> <<row>>]

\* variable_specs(domain).loc[variable]
variable_specs(domain, variable) ==
    [dir_prefix |-> IF variable = "forcing" THEN "forcing_" ELSE "",
     use_suffix |-> IF domain = "hawaii" THEN TRUE ELSE variable = "channel",
     var_string |-> IF variable = "forcing" THEN "forcing" ELSE "channel_rt"]

----------------------------------------------------------------------------
(* reftime.py: reference-time scheduling *)

\* faulty variant of date_range: the end of the range is left out
DateRangeOpenEnd(start, end, step) ==
    IF start >= end THEN <<>>
    ELSE [k \in 1..((end - 1 - start) \div step + 1) |-> start + (k - 1) * step]

\* pd.date_range(start, end, freq = step): start, start + step, ... <= end
date_range(start, end, step) ==
    IF start > end THEN <<>>
    ELSE [k \in 1..((end - start) \div step + 1) |-> start + (k - 1) * step]

Reverse(s) == [i \in 1..Len(s) |-> s[Len(s) + 1 - i]]

\* build_reftime_list(specs, ref_start, ref_end, config, order)
build_reftime_list(domain, ref_start, ref_end, config, order) ==
    LET version == nwm_version(ref_start)
        df_config == config_specs(config, domain, version)
    IN  IF ref_end < ref_start THEN Error("StartAfterEnd")
        ELSE IF domain = "hawaii" /\ config = "medium_range"
        THEN Error("DomainConfigNotCompatible")
        ELSE IF version < V20 \/ version > V22 THEN Error("BadVersion")
        ELSE IF ~df_config.ok THEN df_config
        \* df_config.loc[config, ...]: the row of latest_ana is named
        \* analysis_assim
        ELSE IF config = "latest_ana" THEN Error("KeyError")
        ELSE
        LET runs_per_day == df_config.runs_per_day
            base_run_hour == df_config.base_run_hour
            interval == 24 \div runs_per_day
            start ==
                IF base_run_hour = 0 /\ runs_per_day < 24
                THEN LET offset == Hour(ref_start) % interval
                     IN  IF offset > 0
                         THEN ref_start + Hours(interval - (Hour(ref_start) % interval))
                         ELSE ref_start
                ELSE IF base_run_hour > 0 /\ runs_per_day = 1
                THEN IF Hour(ref_start) <= base_run_hour
                     THEN ReplaceHour(ref_start, base_run_hour)
                     ELSE ReplaceHour(ref_start, base_run_hour) + Days(1)
                ELSE ref_start
        IN  IF ref_end < start THEN [ok |-> TRUE, list |-> <<>>]
            ELSE LET ref_time_list == date_range(start, ref_end, Hours(interval))
                 IN  [ok |-> TRUE,
                      list |-> IF order = "descending"
                               THEN Reverse(ref_time_list)
                               ELSE ref_time_list]

\* the list reftimes_in_range returns of the list build_reftime_list built
InRangeOfList(built, eval_hr) ==
    IF ~built.ok THEN built
    \* return [], []
    ELSE IF built.list = <<>> THEN [ok |-> TRUE, list |-> << <<>>, <<>> >>]
    ELSE IF eval_hr >= 0
    THEN IF SelectSeq(built.list, LAMBDA ref : Hour(ref) = eval_hr) = <<>>
         \* min_date = ref_time_list[0]
         THEN Error("IndexError")
         ELSE [ok |-> TRUE,
               list |-> SelectSeq(built.list, LAMBDA ref : Hour(ref) = eval_hr)]
    ELSE built

\* reftimes_in_range with ref_start and ref_end moved to eval_hr
InRangeOfBounds(domain, ref_start, ref_end, config, eval_hr, df_config) ==
    IF nwm_version(ref_start) # nwm_version(ref_end)
    THEN Error("VersionMismatch")
    ELSE IF ~df_config.ok THEN df_config
    \* df_config.loc[config, ...]
    ELSE IF config = "latest_ana" THEN Error("KeyError")
    ELSE InRangeOfList(build_reftime_list(domain, ref_start, ref_end, config,
                                          "ascending"),
                       eval_hr)

\* reftimes_in_range(specs, config, eval_hr)
reftimes_in_range(domain, ref_start, ref_end, config, eval_hr) ==
    IF eval_hr >= 0
    THEN InRangeOfBounds(domain,
             ref_start - Hours(Hour(ref_start)) + Hours(eval_hr),
             ref_end - Hours(Hour(ref_end)) + Hours(eval_hr),
             config, eval_hr,
             config_specs(config, domain,
                 nwm_version(ref_start - Hours(Hour(ref_start))
                             + Hours(eval_hr))))
    ELSE InRangeOfBounds(domain, ref_start, ref_end, config, eval_hr,
             config_specs(config, domain, nwm_version(ref_start)))

----------------------------------------------------------------------------
(* files.py: the table of filename parts (df_parts) *)

\* the -999 that stands for "argument not given"
NotGiven == 0 - 999

\* one row of df_parts; label is the row's index label
PartsRow(label, time, config) ==
    [label |-> label, datedir |-> DateOf(time), ref_hr_string |-> 0,
     config |-> config, ts_hr_string |-> <<"tm", 0>>, val_time |-> time]

\* pd.DataFrame({...}, index = np.arange(n_files))
InitParts(n_files, time, config) ==
    [k \in 1..n_files |-> PartsRow(k - 1, time, config)]

\* the row .loc creates for a label that is not in the index
BlankRow(label) ==
    [label |-> label, datedir |-> NaT, ref_hr_string |-> NaT,
     config |-> NaN, ts_hr_string |-> <<>>, val_time |-> NaT]

Merge(row, upd) ==
    [c \in DOMAIN row |-> IF c \in DOMAIN upd THEN upd[c] ELSE row[c]]

\* df.loc[label, columns] = values: sets the cells of the row with that label,
\* and appends a new row (setting with enlargement) when no row has it
LocSet(df, label, upd) ==
    IF \E k \in 1..Len(df) : df[k].label = label
    THEN LET k == CHOOSE j \in 1..Len(df) : df[j].label = label
         IN  SubSeq(df, 1, k - 1) \o <<Merge(df[k], upd)>>
                 \o SubSeq(df, k + 1, Len(df))
    ELSE Append(df, Merge(BlankRow(label), upd))

\* faulty variant of TsString: the minutes are never appended
TsStringNoMinutes(pre, ts_int, ts_hr, ts_min) == <<pre, ts_hr>>

\* 'tm' + str(ts_hr).zfill(2), with str(ts_min).zfill(2) appended when the
\* timestep is a fraction of an hour (ts_int % 1 > 0)
TsString(pre, ts_int, ts_hr, ts_min) ==
    IF ts_int % 60 > 0 THEN <<pre, ts_hr, ts_min>> ELSE <<pre, ts_hr>>

\* faulty variant of NSteps: one file per hour, whatever the timestep
NStepsWholeHours(n_hours, ts_int) == n_hours

\* int(n_hours/ts_int)
NSteps(n_hours, ts_int) == Hours(n_hours) \div ts_int

----------------------------------------------------------------------------
(* files.py: forecast builder *)

get_forecast_fileparts(ref_time, n_files, df_parts, ts_int, include_t0) ==
    [k \in 1..Len(df_parts) |->
        LET i == k - 1
            row == df_parts[k]
        IN  IF i >= n_files THEN row
            ELSE IF i = 0 /\ include_t0
            THEN [row EXCEPT !.ref_hr_string = Hour(ref_time),
                             !.config = "analysis_assim",
                             !.ts_hr_string = TsString("tm", ts_int, 0, 0),
                             !.val_time = ref_time]
            ELSE LET ts_hr == IF include_t0 THEN i * ts_int ELSE (i + 1) * ts_int
                 IN  [row EXCEPT !.datedir = DateOf(ref_time),
                                 !.ref_hr_string = Hour(ref_time),
                                 !.ts_hr_string =
                                     TsString("f", ts_int, ts_hr \div 60, ts_hr % 60),
                                 !.val_time = ref_time + ts_hr]]

build_forecast_fileparts(ref_time, config, n_hours, ts_int, include_t0, val_start, val_end) ==
    LET forecast_start == IF include_t0 THEN ref_time ELSE ref_time + ts_int
        n_files == IF include_t0 THEN NSteps(n_hours, ts_int) + 1
                   ELSE NSteps(n_hours, ts_int)
        forecast_end == ref_time + Hours(n_hours)
        list_start0 == IF val_start = NotGiven THEN forecast_start ELSE val_start
        list_end0 == IF val_start = NotGiven THEN forecast_end ELSE val_end
        list_end == IF forecast_end < list_end0 THEN forecast_end ELSE list_end0
        list_start == IF ref_time > list_start0 THEN ref_time + ts_int
                      ELSE list_start0
    IN  [ok |-> TRUE,
         parts |-> get_forecast_fileparts(ref_time, n_files,
                       InitParts(n_files, ref_time, config), ts_int, include_t0),
         list_start |-> list_start, list_end |-> list_end]

----------------------------------------------------------------------------
(* files.py: standard and extended analysis builder *)

\* one iteration of the loop of get_ana_fileparts; clock_ztime is the wall
\* clock cut to the hour
AnaRow(row, i, start_time, config, n_files, ts_int, include_t0, use_tm02, is_latest, clock_ztime) ==
    LET val_time == start_time + (IF include_t0 THEN i * ts_int
                                  ELSE (i + 1) * ts_int)
        val_minutes == Minute(val_time)
        nextday == (val_time + Days(1)) - val_minutes
        ext ==
            IF Hour(val_time) < 13
            THEN [datedir |-> DateOf(val_time), ref_hr |-> 16,
                  ts_hr |-> 16 - Hour(val_time), ts_min |-> 0]
            ELSE IF ReplaceHour(nextday, 19) > clock_ztime
                 THEN IF 16 - Hour(val_time) < 0
                      THEN [datedir |-> DateOf(nextday), ref_hr |-> 16,
                            ts_hr |-> 40 - Hour(val_time), ts_min |-> 0]
                      ELSE [datedir |-> DateOf(val_time), ref_hr |-> 16,
                            ts_hr |-> 16 - Hour(val_time), ts_min |-> 0]
                 ELSE [datedir |-> DateOf(nextday), ref_hr |-> 16,
                       ts_hr |-> 40 - Hour(val_time), ts_min |-> 0]
        \* (ts_min is bound in the tm02 branch only; the other branches are
        \* reached with whole-hour timesteps, where it is not read)
        ts_min == IF val_minutes > 0 THEN 60 - val_minutes ELSE 0
        \* i >= n_files - (1/ts_int) - 1, both sides multiplied by ts_int
        t1 == is_latest /\ i * ts_int >= n_files * ts_int - 60 - ts_int
        t0 == is_latest /\ i = n_files - 1
        src == IF t0 THEN val_time
               ELSE IF t1 THEN val_time + Hours(1)
               ELSE val_time + Hours(2)
        hr0 == IF t0 THEN 0 ELSE IF t1 THEN 1 ELSE 2
        std ==
            IF use_tm02
            THEN [datedir |-> DateOf(src), ref_hr |-> Hour(src),
                  ts_hr |-> IF val_minutes > 0 THEN hr0 - 1 ELSE hr0,
                  ts_min |-> ts_min]
            ELSE [datedir |-> DateOf(val_time), ref_hr |-> Hour(val_time),
                  ts_hr |-> 0, ts_min |-> 0]
        p == IF config = "analysis_assim_extend" THEN ext ELSE std
    IN  [row EXCEPT !.datedir = p.datedir,
                    !.ref_hr_string = p.ref_hr,
                    !.ts_hr_string = TsString("tm", ts_int, p.ts_hr, p.ts_min),
                    !.val_time = val_time,
                    !.config = IF is_latest THEN "analysis_assim" ELSE @]

\* faulty variant of get_ana_fileparts: an artifact of the extended analysis
\* valid at an hour 13..23 whose run of the day after is not published at
\* utcnow is left without a valid time
AnaFilepartsPublishedOnly(start_time, config, n_files, ts_int, df_parts, include_t0, use_tm02, is_latest, utcnow) ==
    [k \in 1..Len(df_parts) |->
        IF k - 1 >= n_files THEN df_parts[k]
        ELSE LET row == AnaRow(df_parts[k], k - 1, start_time, config,
                               n_files, ts_int, include_t0, use_tm02,
                               is_latest, utcnow - Minute(utcnow))
             IN  IF /\ config = "analysis_assim_extend"
                    /\ Hour(row.val_time) >= 13
                    /\ Days(DateOf(row.val_time) + 1) + Hours(19) > utcnow
                 THEN [row EXCEPT !.val_time = NaT]
                 ELSE row]

\* faulty variant of get_ana_fileparts: the valid hour 12 of the extended
\* analysis is read from the run of the day after, like the hours 13..23
AnaFilepartsSplitAt12(start_time, config, n_files, ts_int, df_parts, include_t0, use_tm02, is_latest, utcnow) ==
    [k \in 1..Len(df_parts) |->
        IF k - 1 >= n_files THEN df_parts[k]
        ELSE LET row == AnaRow(df_parts[k], k - 1, start_time, config,
                               n_files, ts_int, include_t0, use_tm02,
                               is_latest, utcnow - Minute(utcnow))
             IN  IF /\ config = "analysis_assim_extend"
                    /\ Hour(row.val_time) = 12
                 THEN [row EXCEPT !.datedir = DateOf(row.val_time) + 1,
                                  !.ts_hr_string = <<"tm", 28>>]
                 ELSE row]

\* faulty variant of get_ana_fileparts: an artifact of the extended analysis
\* valid at an hour 17..23 whose run of the day after is not published at
\* utcnow is read from the run of its own day, at a negative timestep
AnaFilepartsNegativeOffset(start_time, config, n_files, ts_int, df_parts, include_t0, use_tm02, is_latest, utcnow) ==
    [k \in 1..Len(df_parts) |->
        IF k - 1 >= n_files THEN df_parts[k]
        ELSE LET row == AnaRow(df_parts[k], k - 1, start_time, config,
                               n_files, ts_int, include_t0, use_tm02,
                               is_latest, utcnow - Minute(utcnow))
             IN  IF /\ config = "analysis_assim_extend"
                    /\ Hour(row.val_time) >= 17
                    /\ Days(DateOf(row.val_time) + 1) + Hours(19) > utcnow
                 THEN [row EXCEPT !.datedir = DateOf(row.val_time),
                                  !.ts_hr_string =
                                      <<"tm", 16 - Hour(row.val_time)>>]
                 ELSE row]

\* utcnow is what datetime.utcnow() returns during the call
get_ana_fileparts(start_time, config, n_files, ts_int, df_parts, include_t0, use_tm02, is_latest, utcnow) ==
    LET clock_ztime == utcnow - Minute(utcnow)
    IN  [k \in 1..Len(df_parts) |->
            IF k - 1 >= n_files THEN df_parts[k]
            ELSE AnaRow(df_parts[k], k - 1, start_time, config, n_files,
                        ts_int, include_t0, use_tm02, is_latest, clock_ztime)]

----------------------------------------------------------------------------
(* files.py: the latest-analysis splicer *)

\* for i in np.arange(n_files-3, n_files): the most recent standard AnA
RECURSIVE LatestTail(_, _, _, _)
LatestTail(df, i, n_files, end_time) ==
    IF i >= n_files THEN df
    ELSE LatestTail(LocSet(df, i,
                        [datedir |-> DateOf(end_time),
                         ref_hr_string |-> Hour(end_time),
                         ts_hr_string |-> <<"tm", n_files - i - 1>>,
                         config |-> "analysis_assim"]),
                    i + 1, n_files, end_time)

\* datetime(ivt.year, ivt.month, ivt.day + 1, 16, 0, 0) raises ValueError
\* when ivt is the last day of its month
NextDayExists(day) == DayOfMonth(day) + 1 <= MonthLen[MonthOfDay(day)]

\* faulty variant of NextExtHour: the counter never wraps
NextExtHourNoWrap(ext_ts_hour) == ext_ts_hour + 1

\* the value of ext_ts_hour after one extended timestep
NextExtHour(ext_ts_hour) == IF ext_ts_hour = 27 THEN 4 ELSE ext_ts_hour + 1

\* faulty variant of SwitchConfig: the config follows the hour alone
SwitchConfigByHour(config, ivt) ==
    IF Hour(ivt) = 16 THEN "analysis_assim_extend" ELSE "analysis_assim"

\* the config in force at valid time ivt, walking backward
SwitchConfig(config, ivt) ==
    IF config = "analysis_assim" /\ Hour(ivt) = 16
    THEN "analysis_assim_extend" ELSE config

\* faulty variant of LatestStep: the run of the day after the valid time is
\* taken from ext_ts_hour 16 on, not from 17 on
LatestStepNextDayFrom16(st, val_times, i) ==
    LET ivt == val_times[i + 1]
        config == SwitchConfig(st.config, ivt)
        ext_ts_hour == IF config # st.config THEN 0 ELSE st.ext_ts_hour
        data_time == IF config = "analysis_assim" THEN ivt + Hours(2)
                     ELSE IF ext_ts_hour < 16
                     THEN Days(DateOf(ivt)) + Hours(16)
                     ELSE Days(DateOf(ivt) + 1) + Hours(16)
    IN  IF config # "analysis_assim" /\ ext_ts_hour >= 16
           /\ ~NextDayExists(DateOf(ivt))
        THEN Error("DayOutOfRange")
        ELSE [ok |-> TRUE,
              parts |-> LocSet(st.parts, i,
                            [config |-> config,
                             ts_hr_string |->
                                 <<"tm", IF config = "analysis_assim" THEN 2
                                         ELSE ext_ts_hour>>,
                             datedir |-> DateOf(data_time),
                             ref_hr_string |-> Hour(data_time)]),
              config |-> config,
              ext_ts_hour |-> IF config = "analysis_assim" THEN ext_ts_hour
                              ELSE NextExtHour(ext_ts_hour)]

\* one iteration of the loop over i in range(n_files-4, -1, -1); st holds
\* df_parts and the loop's variables config and ext_ts_hour, or the error
\* an earlier iteration raised
LatestStep(st, val_times, i) ==
    LET ivt == val_times[i + 1]
        config == SwitchConfig(st.config, ivt)
        ext_ts_hour == IF config # st.config THEN 0 ELSE st.ext_ts_hour
    IN  IF config = "analysis_assim"
        THEN LET data_time == ivt + Hours(2)
             IN  [ok |-> TRUE,
                  parts |-> LocSet(st.parts, i,
                                [config |-> config,
                                 ts_hr_string |-> <<"tm", 2>>,
                                 datedir |-> DateOf(data_time),
                                 ref_hr_string |-> Hour(data_time)]),
                  config |-> config, ext_ts_hour |-> ext_ts_hour]
        ELSE IF ext_ts_hour >= 17 /\ ~NextDayExists(DateOf(ivt))
        THEN Error("DayOutOfRange")
        ELSE LET data_time == IF ext_ts_hour < 17
                              THEN Days(DateOf(ivt)) + Hours(16)
                              ELSE Days(DateOf(ivt) + 1) + Hours(16)
             IN  [ok |-> TRUE,
                  parts |-> LocSet(st.parts, i,
                                [config |-> config,
                                 ts_hr_string |-> <<"tm", ext_ts_hour>>,
                                 datedir |-> DateOf(data_time),
                                 ref_hr_string |-> Hour(data_time)]),
                  config |-> config,
                  ext_ts_hour |-> NextExtHour(ext_ts_hour)]

\* for i in range(n_files-4, -1, -1): the iterations i = hi, hi - 1, ..., lo
\* in this order, ended by the first one that raises (the index range is
\* halved so that the evaluation does not nest once per iteration)
RECURSIVE LatestWalk(_, _, _, _)
LatestWalk(st, val_times, hi, lo) ==
    IF hi < lo THEN st
    ELSE IF hi = lo THEN LatestStep(st, val_times, hi)
    ELSE LET mid == (hi + lo + 1) \div 2
             first == LatestWalk(st, val_times, hi, mid)
         IN  IF first.ok THEN LatestWalk(first, val_times, mid - 1, lo)
             ELSE first

\* faulty variant of get_latest_ana_fileparts: the walk starts at the 3rd to
\* last timestep, inside the tail
LatestAnaWalkFromTail(start_time0, n_hours, ts_int, df_parts, include_t0, domain) ==
    LET end_time == start_time0 + Hours(n_hours)
        start_time == IF include_t0 THEN start_time0
                      ELSE start_time0 + Hours(1)
        val_times == date_range(start_time, end_time, Hours(1))
        n_files == Len(val_times)
    IN  IF Len(df_parts) # n_files THEN Error("LengthMismatch")
        ELSE
        LET tail == LatestTail([k \in 1..n_files |->
                                   [df_parts[k] EXCEPT !.val_time = val_times[k]]],
                               n_files - 3, n_files, end_time)
            walk == LatestWalk([ok |-> TRUE, parts |-> tail,
                                config |-> "analysis_assim", ext_ts_hour |-> 0],
                               val_times, n_files - 3, 0)
        IN  IF walk.ok THEN [ok |-> TRUE, parts |-> walk.parts] ELSE walk

get_latest_ana_fileparts(start_time0, n_hours, ts_int, df_parts, include_t0, domain) ==
    LET end_time == start_time0 + Hours(n_hours)
        start_time == IF include_t0 THEN start_time0
                      ELSE start_time0 + Hours(1)
        val_times == date_range(start_time, end_time, Hours(1))
        n_files == Len(val_times)
    IN  \* df_parts['val_time'] = val_times needs as many values as rows
        IF Len(df_parts) # n_files THEN Error("LengthMismatch")
        ELSE
        LET tail == LatestTail([k \in 1..n_files |->
                                   [df_parts[k] EXCEPT !.val_time = val_times[k]]],
                               n_files - 3, n_files, end_time)
            walk == LatestWalk([ok |-> TRUE, parts |-> tail,
                                config |-> "analysis_assim", ext_ts_hour |-> 0],
                               val_times, n_files - 4, 0)
        IN  IF walk.ok THEN [ok |-> TRUE, parts |-> walk.parts] ELSE walk

----------------------------------------------------------------------------
(* files.py: all timesteps of one analysis run *)

RECURSIVE SimpleAnaLoop(_, _, _, _, _)
SimpleAnaLoop(df, i, n_hours, step, ref_time) ==
    IF i >= n_hours THEN df
    ELSE SimpleAnaLoop(LocSet(df, i,
                           [datedir |-> DateOf(ref_time),
                            ref_hr_string |-> Hour(ref_time),
                            ts_hr_string |-> <<"tm", i>>]),
                       i + step, n_hours, step, ref_time)

\* faulty variant of get_simple_ana_fileparts: the loop starts at tm04
SimpleAnaFrom4(ref_time, n_hours, df_parts, ts_int) ==
    [ok |-> TRUE,
     parts |-> Reverse(SimpleAnaLoop(df_parts, 4, n_hours, 1, ref_time))]

get_simple_ana_fileparts(ref_time, n_hours, df_parts, ts_int) ==
    \* range(0, n_hours, ts_int) takes whole numbers only
    IF ts_int % 60 > 0 THEN Error("TypeError")
    ELSE [ok |-> TRUE,
          parts |-> Reverse(SimpleAnaLoop(df_parts, 0, n_hours, ts_int \div 60,
                                          ref_time))]

build_reftime_fileparts(ref_time, config, n_hours, ts_int, is_forecast, include_t0) ==
    LET n_files == IF include_t0 /\ is_forecast
                   THEN NSteps(n_hours, ts_int) + 1
                   ELSE NSteps(n_hours, ts_int)
        df_parts == InitParts(n_files, ref_time, config)
    IN  IF is_forecast
        THEN [ok |-> TRUE,
              parts |-> get_forecast_fileparts(ref_time, n_files, df_parts,
                                               ts_int, FALSE)]
        ELSE get_simple_ana_fileparts(ref_time, n_hours, df_parts, ts_int)

----------------------------------------------------------------------------
(* files.py: analysis builders, aligned to a forecast and within a range *)

\* the dispatch shared by the two analysis builders
AnaDispatch(start_time, config, n_hours, n_files, ts_int, include_t0, domain, utcnow) ==
    LET df_parts == InitParts(n_files, start_time, config)
    IN  IF config = "latest_ana"
        THEN IF domain = "conus"
             THEN get_latest_ana_fileparts(start_time, n_hours, ts_int,
                                           df_parts, include_t0, domain)
             ELSE [ok |-> TRUE,
                   parts |-> get_ana_fileparts(start_time, config, n_files,
                                 ts_int, df_parts, include_t0, TRUE, TRUE,
                                 utcnow)]
        ELSE [ok |-> TRUE,
              parts |-> get_ana_fileparts(start_time, config, n_files, ts_int,
                            df_parts, include_t0, TRUE, FALSE, utcnow)]

WithRange(res, list_start, list_end) ==
    IF ~res.ok THEN res
    ELSE [ok |-> TRUE, parts |-> res.parts,
          list_start |-> list_start, list_end |-> list_end]

build_ana_fileparts_aligned_to_forecast(ref_time, config, n_hours, ts_int, include_t0, domain, utcnow) ==
    LET forecast_start == IF include_t0 THEN ref_time ELSE ref_time + ts_int
        n_files == IF include_t0 THEN NSteps(n_hours, ts_int) + 1
                   ELSE NSteps(n_hours, ts_int)
        forecast_end == ref_time + Hours(n_hours)
    IN  WithRange(AnaDispatch(ref_time, config, n_hours, n_files, ts_int,
                              include_t0, domain, utcnow),
                  forecast_start, forecast_end)

build_ana_fileparts_defined_range(val_start, val_end, ts_int, config, domain, utcnow) ==
    LET include_t0 == TRUE
        \* int(delta.total_seconds() / 3600) + 1
        n_hours == ((val_end - val_start) \div 60) + 1
        n_files == IF ts_int = 60 THEN n_hours
                   ELSE NSteps(n_hours, ts_int) + 1
    IN  WithRange(AnaDispatch(val_start, config,
                              \* the splicer is handed n_hours - 1
                              n_hours - 1, n_files, ts_int, include_t0, domain,
                              utcnow),
                  val_start, val_end)

----------------------------------------------------------------------------
(* files.py: one filelist *)

\* Path(datedir) / config_dir / "nwm.tHHz.config.var_string.ts.domain.nc";
\* composed strings are held as the tuple of their parts
NwmPath(row, dir_prefix, dir_suffix, var_string, var_str_suffix, domain) ==
    [datedir |-> row.datedir,
     config_dir |-> <<dir_prefix, row.config, dir_suffix>>,
     ref_hr_string |-> row.ref_hr_string,
     config |-> row.config,
     var_string |-> <<var_string, var_str_suffix>>,
     ts_hr_string |-> row.ts_hr_string,
     domain |-> domain]

\* the rows of df_parts whose valid time lies in [list_start, list_end], in order
RowsInRange(parts, list_start, list_end) ==
    SelectSeq(parts, LAMBDA row : /\ row.val_time # NaT
                                  /\ row.val_time >= list_start
                                  /\ row.val_time <= list_end)

\* the filenames of the rows kept, with the suffixes of the config (the loop
\* over df_parts.iterrows())
FilelistOfRows(kept, df_var, df_config, config, domain) ==
    [k \in 1..Len(kept) |->
        IF df_var.use_suffix /\ kept[k].config = config
        THEN NwmPath(kept[k], df_var.dir_prefix, df_config.dir_suffix,
                     df_var.var_string, df_config.var_str_suffix, domain)
        ELSE NwmPath(kept[k], df_var.dir_prefix, "", df_var.var_string, "",
                     domain)]

\* the end of build_one_filelist: built is what the builder of the filename
\* parts returned
FilelistOfParts(built, df_var, df_config, config, domain) ==
    IF ~built.ok THEN built
    ELSE [ok |-> TRUE, parts |-> built.parts,
          list_start |-> built.list_start, list_end |-> built.list_end,
          filelist |-> FilelistOfRows(
                           RowsInRange(built.parts, built.list_start,
                                       built.list_end),
                           df_var, df_config, config, domain)]

\* the dispatch of build_one_filelist to the builder of the filename parts
BuildParts(domain, passed_config, config, ref_time, val_start, val_end, include_t0, n_hours, ts_int, is_forecast, utcnow) ==
    IF is_forecast
    THEN build_forecast_fileparts(ref_time, config, n_hours, ts_int,
                                  include_t0, val_start, val_end)
    ELSE IF val_start = NotGiven
    THEN build_ana_fileparts_aligned_to_forecast(ref_time, passed_config,
             n_hours, ts_int, include_t0, domain, utcnow)
    ELSE build_ana_fileparts_defined_range(val_start, val_end, ts_int,
             passed_config, domain, utcnow)

\* build_one_filelist from the config rows on: df_config is the row of the
\* config and df_align the row the duration is read from
FilelistOfConfig(domain, variable, passed_config, config, ref_time, val_start, val_end, include_t0, partial_duration, utcnow, df_config, df_align) ==
    IF ~df_config.ok THEN df_config
    ELSE IF ~df_align.ok THEN df_align
    ELSE FilelistOfParts(
             BuildParts(domain, passed_config, config, ref_time, val_start,
                        val_end, include_t0,
                        IF partial_duration > 0 THEN partial_duration * 24
                        ELSE df_align.duration_hrs,
                        df_config.timestep_int, df_config.is_forecast, utcnow),
             variable_specs(domain, variable), df_config, config, domain)

\* the row of config_specs that gives the duration: of the forecast config an
\* analysis is aligned to, and of the config itself otherwise
AlignSpecs(df_config, val_start, ana_align_to0, domain, version) ==
    IF ~df_config.ok THEN df_config
    ELSE IF ~df_config.is_forecast /\ val_start = NotGiven
    THEN config_specs(IF ana_align_to0 = "none" THEN "short_range"
                      ELSE ana_align_to0, domain, version)
    ELSE df_config

\* build_one_filelist with the version and the config resolved
FilelistOfVersion(domain, variable, passed_config, config, version, ref_time, val_start, val_end, ana_align_to0, include_t0, partial_duration, utcnow, df_config) ==
    FilelistOfConfig(domain, variable, passed_config, config, ref_time,
        val_start, val_end, include_t0, partial_duration, utcnow, df_config,
        AlignSpecs(df_config, val_start, ana_align_to0, domain, version))

build_one_filelist(domain, variable, config0, ref_time0, val_start, val_end, ana_align_to0, include_t0, partial_duration, utcnow) ==
    IF ref_time0 = NotGiven /\ val_start = NotGiven THEN Error("NoValidDate")
    ELSE FilelistOfVersion(domain, variable, config0,
             IF config0 = "latest_ana" THEN "analysis_assim" ELSE config0,
             IF ref_time0 # NotGiven THEN nwm_version(ref_time0)
             ELSE nwm_version(val_start),
             IF ref_time0 = NotGiven THEN val_start ELSE ref_time0,
             val_start, val_end, ana_align_to0, include_t0, partial_duration,
             utcnow,
             config_specs(config0,
                          domain,
                          IF ref_time0 # NotGiven THEN nwm_version(ref_time0)
                          ELSE nwm_version(val_start)))

\* parse_nwm_filelist(filelist): the reference time and the valid time read
\* back from each path
ParsedHours(ts_str) ==
    \* int(ts_str[2:]): for "tmHH[MM]" the digits after "tm", for "fHHH[MM]"
    \* the digits after the first digit of the hours
    LET hh == IF ts_str[1] = "f" THEN ts_str[2] % 100 ELSE ts_str[2]
    IN  IF Len(ts_str) = 3 THEN hh * 100 + ts_str[3] ELSE hh

parse_nwm_filelist(filelist) ==
    [k \in 1..Len(filelist) |->
        LET path == filelist[k]
            reftime == Days(path.datedir) + Hours(path.ref_hr_string)
            hr_add == IF path.ts_hr_string[1] = "tm"
                      THEN 0 - ParsedHours(path.ts_hr_string)
                      ELSE ParsedHours(path.ts_hr_string)
        IN  [reftime |-> reftime, ts |-> path.ts_hr_string,
             config |-> path.config, val_time |-> reftime + Hours(hr_add)]]

----------------------------------------------------------------------------
(* files.py: the chunker *)

Min(a, b) == IF a < b THEN a ELSE b

\* seq[a:b] of Python, 0 <= a
Slice(seq, a, b) == SubSeq(seq, a + 1, Min(b, Len(seq)))

\* range(first, stop, step), step > 0
RECURSIVE Range(_, _, _)
Range(first, stop, step) ==
    IF first >= stop THEN <<>>
    ELSE <<first>> \o Range(first + step, stop, step)

\* faulty variant of get_filelist_chunks: with include_t0 the chunks start at
\* i instead of i - 1
ChunksWithoutT0(filelist, n, include_t0) ==
    LET nts == Len(filelist)
    IN  IF nts > n
        THEN LET starts == IF include_t0 THEN Range(1, nts, n)
                           ELSE Range(0, nts, n)
             IN  [c \in 1..Len(starts) |->
                    Slice(filelist, starts[c], starts[c] + n)]
        ELSE <<filelist>>

\* faulty variant of get_filelist_chunks: every slice ends one artifact late
ChunksOneTooLong(filelist, n, include_t0) ==
    LET nts == Len(filelist)
    IN  IF nts > n
        THEN LET starts == IF include_t0 THEN Range(1, nts, n)
                           ELSE Range(0, nts, n)
             IN  [c \in 1..Len(starts) |->
                    LET i == starts[c]
                    IN  IF include_t0 THEN Slice(filelist, i - 1, i + n + 1)
                        ELSE Slice(filelist, i, i + n + 1)]
        ELSE <<filelist>>

get_filelist_chunks(filelist, n, include_t0) ==
    LET nts == Len(filelist)
    IN  IF nts > n
        THEN LET starts == IF include_t0 THEN Range(1, nts, n)
                           ELSE Range(0, nts, n)
             IN  [c \in 1..Len(starts) |->
                    LET i == starts[c]
                    IN  IF include_t0
                        THEN IF i + n <= nts THEN Slice(filelist, i - 1, i + n)
                             ELSE Slice(filelist, i - 1, nts)
                        ELSE IF i + n <= nts THEN Slice(filelist, i, i + n)
                             ELSE Slice(filelist, i, nts)]
        ELSE <<filelist>>

----------------------------------------------------------------------------
(* reftime.py: the freshest analysis valid time *)

get_most_recent_ana_valtime(verif_config, utcnow) ==
    LET clock_ztime == utcnow
    IN  IF verif_config \in {"latest_ana", "analysis_assim"}
        THEN LET t == clock_ztime - Hours(1)
             IN  [ok |-> TRUE, time |-> t - Minute(t)]
        ELSE IF verif_config = "analysis_assim_extend"
        THEN IF Hour(clock_ztime) >= 19
             THEN [ok |-> TRUE, time |-> Days(DateOf(clock_ztime)) + Hours(16)]
             ELSE [ok |-> TRUE,
                   time |-> Days(DateOf(clock_ztime - Days(1))) + Hours(16)]
        ELSE Error("UnboundLocalError")

----------------------------------------------------------------------------
(* files.py: the filelists of one evaluation, in chunks *)

\* the n of get_filelist_chunks_by_df(df_filelists, n = 24)
ChunkSize == 24

SeqMax(seq) ==
    seq[CHOOSE k \in 1..Len(seq) : \A j \in 1..Len(seq) : seq[j] <= seq[k]]

\* parse_nwm_filelist(f)['reftime'].max()
MaxReftime(filelist) ==
    LET parsed == parse_nwm_filelist(filelist)
    IN  SeqMax([k \in 1..Len(parsed) |-> parsed[k].reftime])

SetMax(S) == CHOOSE x \in S : \A y \in S : y <= x

SeqToSet(seq) == {seq[k] : k \in 1..Len(seq)}

\* faulty variant of KeptChunks: every feasible chunk is kept
KeptAllFeasible(feasible, store_periods) ==
    IF SeqToSet(store_periods) \cap feasible # {}
    THEN [ok |-> TRUE, keep |-> feasible]
    ELSE Error("NoFeasiblePeriod")

\* faulty variant of KeptChunks: only the requested store periods that are
\* feasible are kept
KeptOnlyRequested(feasible, store_periods) ==
    IF SeqToSet(store_periods) \cap feasible # {}
    THEN [ok |-> TRUE, keep |-> SeqToSet(store_periods) \cap feasible]
    ELSE Error("NoFeasiblePeriod")

\* the chunks get_filelists keeps of the chunks that are feasible
KeptChunks(feasible, store_periods) ==
    LET included_periods == SeqToSet(store_periods) \cap feasible
    IN  IF included_periods # {}
        THEN [ok |-> TRUE,
              keep |-> {key \in feasible : key <= SetMax(included_periods)}]
        ELSE Error("NoFeasiblePeriod")

\* build_df_filelists for the forecast and the verifying config of one
\* reference time: a row per filelist that is not empty
DfFilelists(fcst, verif) ==
    IF ~fcst.ok THEN fcst
    ELSE IF ~verif.ok THEN verif
    ELSE [ok |-> TRUE,
          rows |-> SelectSeq(<<fcst.filelist, verif.filelist>>,
                             LAMBDA f : f # <<>>)]

build_df_filelists(domain, variable, config_list, ref_time, ana_align_to, include_t0, partial_duration, utcnow) ==
    DfFilelists(
        build_one_filelist(domain, variable, config_list[1], ref_time,
            NotGiven, NotGiven, ana_align_to, include_t0, partial_duration,
            utcnow),
        build_one_filelist(domain, variable, config_list[2], ref_time,
            NotGiven, NotGiven, ana_align_to, include_t0, partial_duration,
            utcnow))

\* the combinations of build_df_filelists in the order of its loops: for
\* ref_time in ref_time_list, for config in config_list, for variable in
\* var_list
Combinations(ref_time_list, config_list, var_list) ==
    [k \in 1..(Len(ref_time_list) * Len(config_list) * Len(var_list)) |->
        [ref_time |->
             ref_time_list[((k - 1) \div (Len(config_list) * Len(var_list))) + 1],
         config |->
             config_list[(((k - 1) \div Len(var_list)) % Len(config_list)) + 1],
         variable |-> var_list[((k - 1) % Len(var_list)) + 1]]]

\* faulty variant of RowsOfBatch: ind counts the rows appended
RowsCountedWhenKept(combos, filelists) ==
    LET kept == SelectSeq([k \in 1..Len(combos) |-> k],
                          LAMBDA k : filelists[k].filelist # <<>>)
    IN  [ok |-> TRUE,
         rows |-> [j \in 1..Len(kept) |->
                      [ind |-> j - 1, ref_time |-> combos[kept[j]].ref_time,
                       config |-> combos[kept[j]].config,
                       variable |-> combos[kept[j]].variable,
                       filelist |-> filelists[kept[j]].filelist]]]

\* the frame build_df_filelists appends to: a row, labelled with the count
\* ind of the combinations gone through, for every filelist that is not
\* empty
RowsOfBatch(combos, filelists) ==
    LET kept == SelectSeq([k \in 1..Len(combos) |-> k],
                          LAMBDA k : filelists[k].filelist # <<>>)
    IN  [ok |-> TRUE,
         rows |-> [j \in 1..Len(kept) |->
                      [ind |-> kept[j] - 1, ref_time |-> combos[kept[j]].ref_time,
                       config |-> combos[kept[j]].config,
                       variable |-> combos[kept[j]].variable,
                       filelist |-> filelists[kept[j]].filelist]]]

\* the loop of build_df_filelists over the filelists build_one_filelist
\* returns, ended by the first call that raises
BatchOfFilelists(combos, filelists) ==
    IF \E k \in 1..Len(combos) : ~filelists[k].ok
    THEN filelists[CHOOSE k \in 1..Len(combos) :
                       /\ ~filelists[k].ok
                       /\ \A j \in 1..(k - 1) : filelists[j].ok]
    ELSE RowsOfBatch(combos, filelists)

\* build_df_filelists on lists of reference times, configs and variables
build_df_filelists_of_lists(domain, combos, val_start, val_end, ana_align_to, include_t0, partial_duration, utcnow) ==
    BatchOfFilelists(combos,
        [k \in 1..Len(combos) |->
            build_one_filelist(domain, combos[k].variable, combos[k].config,
                combos[k].ref_time, val_start, val_end, ana_align_to,
                include_t0, partial_duration, utcnow)])

\* get_filelist_chunks_by_df: the chunks of every row, and the number of
\* chunks of the last row
get_filelist_chunks_by_df(rows, n, include_t0) ==
    [r \in 1..Len(rows) |-> get_filelist_chunks(rows[r], n, include_t0)]

\* the loop over the chunks and the choice of the chunks to keep;
\* max_list_time[c] is parse_nwm_filelist(f[1])['reftime'].max() of chunk c
KeepFeasible(store_periods, n_chunks, max_list_time, last_ana_valtime) ==
    IF KeptChunks({c \in 1..n_chunks :
                      max_list_time[c] <= last_ana_valtime},
                  store_periods).ok
    THEN [ok |-> TRUE,
          keep |-> KeptChunks({c \in 1..n_chunks :
                                  max_list_time[c] <= last_ana_valtime},
                              store_periods).keep,
          n_chunks |-> n_chunks, max_list_time |-> max_list_time,
          last_ana_valtime |-> last_ana_valtime]
    \* the ValueError, with the values n_chunks, max_list_time and
    \* last_ana_valtime hold at the raise
    ELSE [ok |-> FALSE, err |-> "NoFeasiblePeriod",
          n_chunks |-> n_chunks, max_list_time |-> max_list_time,
          last_ana_valtime |-> last_ana_valtime]

\* get_filelists from the chunks on
FilelistsOfChunks(specs, filelist_chunks, n_chunks, last_ana_valtime) ==
    IF n_chunks <= 1
    THEN [ok |-> TRUE, keep |-> {1}, n_chunks |-> n_chunks,
          max_list_time |-> <<>>, last_ana_valtime |-> NaT]
    \* df_filelists.loc[i, 'filelist_chunks'][chunk] and f[1]
    ELSE IF Len(filelist_chunks) < 2
            \/ \E r \in 1..Len(filelist_chunks) :
                   Len(filelist_chunks[r]) < n_chunks
    THEN Error("IndexError")
    ELSE IF ~last_ana_valtime.ok THEN last_ana_valtime
    ELSE KeepFeasible(specs.store_periods, n_chunks,
             [c \in 1..n_chunks |-> MaxReftime(filelist_chunks[2][c])],
             last_ana_valtime.time)

\* get_filelists from the chunks of the rows on
FilelistsOfRowChunks(specs, filelist_chunks, utcnow) ==
    FilelistsOfChunks(specs, filelist_chunks,
        Len(filelist_chunks[Len(filelist_chunks)]),
        get_most_recent_ana_valtime(specs.verif_config, utcnow))

\* get_filelists from df_filelists on
FilelistsOfDf(specs, df_filelists, utcnow) ==
    IF ~df_filelists.ok THEN df_filelists
    \* n_chunks is bound in the loop of get_filelist_chunks_by_df
    ELSE IF df_filelists.rows = <<>> THEN Error("UnboundLocalError")
    ELSE FilelistsOfRowChunks(specs,
             get_filelist_chunks_by_df(df_filelists.rows, ChunkSize, TRUE),
             utcnow)

\* specs: [domain, fcst_config, verif_config, eval_timing, store_periods,
\* ref_time]
get_filelists(specs, variable, i, utcnow) ==
    IF specs.fcst_config = "medium_range"
       /\ specs.verif_config = "latest_ana"
       /\ specs.eval_timing = "current"
    THEN IF i >= Len(specs.store_periods) THEN Error("IndexError")
         ELSE FilelistsOfDf(specs,
                  build_df_filelists(specs.domain, variable,
                      <<specs.fcst_config, specs.verif_config>>,
                      specs.ref_time, specs.fcst_config, TRUE,
                      specs.store_periods[i + 1], utcnow),
                  utcnow)
    ELSE FilelistsOfDf(specs,
             build_df_filelists(specs.domain, variable,
                 <<specs.fcst_config, specs.verif_config>>,
                 specs.ref_time, specs.fcst_config, TRUE, NotGiven, utcnow),
             utcnow)

----------------------------------------------------------------------------
(* reftime.py: the reference times of an evaluation *)

\* get_realtime_eval_daterange(specs)
get_realtime_eval_daterange(specs, utcnow) ==
    LET clock_ztime == utcnow - Minute(utcnow)
        df_config == config_specs(specs.fcst_config, specs.domain,
                                  nwm_version(clock_ztime - Hours(2)))
    IN  IF ~df_config.ok THEN df_config
        ELSE IF specs.fcst_config = "latest_ana" THEN Error("KeyError")
        ELSE IF specs.verif_config \in {"latest_ana", "analysis_assim"}
        THEN [ok |-> TRUE,
              ref_start |-> clock_ztime - Hours(1) - Hours(df_config.duration_hrs),
              ref_end |-> clock_ztime - Hours(1) - Hours(df_config.duration_hrs)]
        ELSE IF specs.verif_config = "analysis_assim_extend"
        THEN LET last_reftime ==
                     IF Hour(clock_ztime) >= 19
                     THEN ReplaceHour(clock_ztime, 16)
                     ELSE ReplaceHour(clock_ztime - Days(1), 16)
             IN  [ok |-> TRUE,
                  ref_start |-> last_reftime - Hours(df_config.duration_hrs + 27),
                  ref_end |-> last_reftime - Hours(df_config.duration_hrs)]
        \* last_reftime is bound in the two branches only
        ELSE Error("UnboundLocalError")

\* adjust_ref_time_limits(specs), store_periods not empty; the duration and
\* the store periods, in days in the source, are held in minutes
adjust_ref_time_limits(specs, utcnow) ==
    LET df_config == config_specs(specs.fcst_config, specs.domain,
                                  nwm_version(utcnow - Minute(utcnow)))
    IN  IF ~df_config.ok THEN df_config
        ELSE IF specs.fcst_config = "latest_ana" THEN Error("KeyError")
        ELSE
        LET duration == Hours(df_config.duration_hrs)
            period_ref_end ==
                [k \in 1..Len(specs.store_periods) |->
                    IF Days(specs.store_periods[k]) < duration
                    THEN specs.ref_end + (duration - Days(specs.store_periods[k]))
                    ELSE specs.ref_end]
            max_period == SeqMax(specs.store_periods)
        IN  [ok |-> TRUE,
             ref_start |-> IF Days(max_period) < duration
                           THEN specs.ref_start + (duration - Days(max_period))
                           ELSE specs.ref_start,
             ref_end |-> SeqMax(period_ref_end),
             period_ref_end |-> period_ref_end]

SeqMin(seq) ==
    seq[CHOOSE k \in 1..Len(seq) : \A j \in 1..Len(seq) : seq[k] <= seq[j]]

\* the loop of get_nearest_ref_times over the lists build_reftime_list
\* returned, ended by the first call that raised and by max() or min() of an
\* empty list
NearestOfChecks(checks, time_direction) ==
    IF \E k \in 1..Len(checks) : ~checks[k].ok \/ checks[k].list = <<>>
    THEN LET k == CHOOSE j \in 1..Len(checks) :
                      /\ ~checks[j].ok \/ checks[j].list = <<>>
                      /\ \A i \in 1..(j - 1) :
                             checks[i].ok /\ checks[i].list # <<>>
         IN  IF ~checks[k].ok THEN checks[k] ELSE Error("MaxOfEmpty")
    ELSE [ok |-> TRUE,
          list |-> [k \in 1..Len(checks) |->
                       IF time_direction = "before"
                       THEN SeqMax(checks[k].list)
                       ELSE SeqMin(checks[k].list)]]

\* get_nearest_ref_times(specs, config, ref_time_list, time_direction)
get_nearest_ref_times(domain, config, ref_time_list, time_direction) ==
    LET df_config == config_specs(config, domain,
                                  nwm_version(ref_time_list[1]))
    IN  IF nwm_version(ref_time_list[1])
               # nwm_version(ref_time_list[Len(ref_time_list)])
        THEN Error("VersionMismatch")
        ELSE IF ~df_config.ok THEN df_config
        ELSE IF config = "latest_ana" THEN Error("KeyError")
        \* ref_time_shift is bound in the two branches only
        ELSE IF time_direction \notin {"before", "after"}
        THEN Error("UnboundLocalError")
        ELSE NearestOfChecks(
                 [k \in 1..Len(ref_time_list) |->
                     IF time_direction = "before"
                     THEN build_reftime_list(domain,
                              ref_time_list[k]
                                  - Hours(24 \div df_config.runs_per_day),
                              ref_time_list[k], config, "ascending")
                     ELSE build_reftime_list(domain, ref_time_list[k],
                              ref_time_list[k]
                                  + Hours(24 \div df_config.runs_per_day),
                              config, "ascending")],
                 time_direction)

\* what get_reftime_list returns or raises, with the specs object as the
\* call leaves it
WithSpecs(res, specs) ==
    IF res.ok THEN [ok |-> TRUE, list |-> res.list, specs |-> specs]
    ELSE [ok |-> FALSE, err |-> res.err, specs |-> specs]

\* reftimes_in_range(specs, specs.fcst_config)
InRangeOfSpecs(specs) ==
    WithSpecs(reftimes_in_range(specs.domain, specs.ref_start, specs.ref_end,
                                specs.fcst_config, NotGiven),
              specs)

\* get_reftime_list after specs.ref_start, specs.ref_end =
\* adjust_ref_time_limits(specs)[:2]
ReftimeListOfAdjusted(specs, adjusted) ==
    IF specs.verif_config = "analysis_assim_extend"
    THEN InRangeOfSpecs([specs EXCEPT !.ref_start = adjusted.ref_start,
                                      !.ref_end = adjusted.ref_end])
    ELSE IF specs.verif_config = "latest_ana"
    THEN WithSpecs(get_nearest_ref_times(specs.domain, specs.fcst_config,
                                         adjusted.period_ref_end, "before"),
                   [specs EXCEPT !.ref_start = adjusted.ref_start,
                                 !.ref_end = adjusted.ref_end])
    \* ref_time_list is bound in the two branches only
    ELSE WithSpecs(Error("UnboundLocalError"),
                   [specs EXCEPT !.ref_start = adjusted.ref_start,
                                 !.ref_end = adjusted.ref_end])

\* get_reftime_list after specs.ref_start, specs.ref_end =
\* get_realtime_eval_daterange(specs)
ReftimeListOfRealtime(specs, adjusted) ==
    IF specs.store_periods # <<>>
    THEN IF ~adjusted.ok THEN WithSpecs(adjusted, specs)
         ELSE ReftimeListOfAdjusted(specs, adjusted)
    ELSE InRangeOfSpecs(specs)

\* get_reftime_list for eval_timing 'current'; realtime is what
\* get_realtime_eval_daterange returned
ReftimeListOfCurrent(specs, realtime, utcnow) ==
    IF ~realtime.ok THEN WithSpecs(realtime, specs)
    ELSE ReftimeListOfRealtime(
             [specs EXCEPT !.ref_start = realtime.ref_start,
                           !.ref_end = realtime.ref_end],
             IF specs.store_periods # <<>>
             THEN adjust_ref_time_limits(
                      [specs EXCEPT !.ref_start = realtime.ref_start,
                                    !.ref_end = realtime.ref_end], utcnow)
             ELSE realtime)

\* get_reftime_list(specs); specs: [domain, fcst_config, verif_config,
\* eval_timing, store_periods, ref_start, ref_end]
get_reftime_list(specs, utcnow) ==
    IF specs.eval_timing = "current"
    THEN ReftimeListOfCurrent(specs,
             get_realtime_eval_daterange(specs, utcnow), utcnow)
    ELSE InRangeOfSpecs(specs)

----------------------------------------------------------------------------
(* bounds of the model *)

\* longest explicit valid range, in hours
MaxRangeHours == 36
\* longest manifest handed to the chunker alone, and largest chunk size
MaxLen == 12
MaxChunk == 4
\* longest scheduling range, in hours
MaxSpanHours == 14

\* the days the requests start on: in v2.0 on the eve of the v2.1 cutover,
\* in v2.1 at the start and near the end of a month
StartDays == {DT(2021, 4, 19, 0), DT(2022, 6, 1, 0), DT(2022, 5, 30, 0)}
StartHours == {0, 5, 12, 13, 16, 17, 21}
StartTimes == {d + Hours(h) : d \in StartDays, h \in StartHours}

\* wall clocks, as a lag behind the start of the request
ClockLags == {Hours(20) + 10, Hours(44) + 50, Days(30)}

AnaConfigs == {"analysis_assim", "analysis_assim_extend", "latest_ana"}
FcstConfigs == {"short_range", "medium_range"}

----------------------------------------------------------------------------
(* bias/bias.py: the frame of the recent analysis values. The frame is held
   as the set of the value times of its rows, and the HDF5 store as the set
   of its entries [key, value_time]: the key and the value time of the
   frame put under it. The group and the config of a key are the same in
   all calls of one run, the key is held as its reference time. *)

\* the value_time of the rows ht_service.get_DataFrame reads from the file
\* of a path: the valid time of the file, its reference time moved by the
\* hours and minutes of its timestep
ValueTimeOfFile(path) ==
    LET ref_ts == Days(path.datedir) + Hours(path.ref_hr_string)
        ts == Hours(path.ts_hr_string[2])
              + (IF Len(path.ts_hr_string) = 3 THEN path.ts_hr_string[3]
                 ELSE 0)
    IN  IF path.ts_hr_string[1] = "tm" THEN ref_ts - ts ELSE ref_ts + ts

\* ref_ts of parse_nwm_path(file) in
\* key = f'/{group}/{config}/DT{ref_ts.strftime("%Y%m%dT%HZ")}'
StoreKey(path) == Days(path.datedir) + Hours(path.ref_hr_string)

\* key in store
InStore(store, key) == \E e \in store : e.key = key

\* store[key]
StoreGet(store, key) == (CHOOSE e \in store : e.key = key).value_time

\* store.put(key = key, value = df_ts, format = 'table')
StorePut(store, key, value_time) ==
    {e \in store : e.key # key} \cup {[key |-> key, value_time |-> value_time]}

\* sorted(list(S)): the k-th element has k - 1 elements below it
Sorted(S) ==
    [k \in 1..Cardinality(S) |->
        CHOOSE x \in S : Cardinality({y \in S : y < x}) = k - 1]

\* seq.index(t), t in seq
IndexOf(seq, t) ==
    CHOOSE k \in 1..Len(seq) : seq[k] = t /\ \A j \in 1..(k - 1) : seq[j] # t

\* one pass of the loop over fetch_filelist, acc.i counting the files gone
\* through: the frame of the key is read from the store if the key is
\* there; otherwise the file is retrieved, put into the store and added to
\* the frame, and a retrieval that raises (failing holds the valid times of
\* the files it raises for) is warned about and passed over
FetchStep(acc, file, failing) ==
    IF InStore(acc.store, StoreKey(file))
    THEN [acc EXCEPT !.i = @ + 1,
                     !.df = @ \cup {StoreGet(acc.store, StoreKey(file))}]
    ELSE IF ValueTimeOfFile(file) \in failing
    THEN [acc EXCEPT !.i = @ + 1, !.failed = @ \cup {ValueTimeOfFile(file)}]
    ELSE [acc EXCEPT !.i = @ + 1, !.df = @ \cup {ValueTimeOfFile(file)},
                     !.store = StorePut(@, StoreKey(file),
                                        ValueTimeOfFile(file))]

\* for file in fetch_filelist
RECURSIVE FetchLoop(_, _, _)
FetchLoop(fetch_filelist, acc, failing) ==
    IF acc.i >= Len(fetch_filelist) THEN acc
    ELSE FetchLoop(fetch_filelist,
                   FetchStep(acc, fetch_filelist[acc.i + 1], failing),
                   failing)

\* val_times_fetch: the valid times needed that are not in the frame
FetchList(val_time, df) == Sorted(SeqToSet(val_time) \ df)

\* get_recent_ana from the filelist on; val_time is the column 'val_time' of
\* the parsed filelist
RecentAnaOfValTimes(filelist, val_time, df, store, failing) ==
    LET val_times_needed == SeqToSet(val_time)
        val_times_fetch == FetchList(val_time, df)
        fetch_filelist ==
            [k \in 1..Len(val_times_fetch) |->
                filelist[IndexOf(val_time, val_times_fetch[k])]]
        done == FetchLoop(fetch_filelist,
                    [i |-> 0,
                     df |-> IF df # {} THEN df \cap val_times_needed ELSE df,
                     store |-> store, failed |-> {}],
                    failing)
    IN  [ok |-> TRUE, df |-> done.df, store |-> done.store,
         failed |-> done.failed,
         val_times_needed |-> val_times_needed,
         fetched |-> {ValueTimeOfFile(fetch_filelist[k]) :
                         k \in 1..Len(fetch_filelist)}]

RecentAnaOfFilelist(built, df, store, failing) ==
    IF ~built.ok THEN built
    ELSE RecentAnaOfValTimes(built.filelist,
             [k \in 1..Len(built.filelist) |->
                 parse_nwm_filelist(built.filelist)[k].val_time],
             df, store, failing)

\* specs: [domain, ana_config]; df is the frame handed in, store the HDF5
\* store as the call finds it
get_recent_ana(specs, t0, bias_period, df, store, failing, utcnow) ==
    RecentAnaOfFilelist(
        build_one_filelist(specs.domain, "channel", specs.ana_config,
            NotGiven, t0 - Days(bias_period), t0, "none", FALSE, NotGiven,
            utcnow),
        df, store, failing)

----------------------------------------------------------------------------
(* the state machine: each action is one call of an entry point by a caller
   that has made no call yet (Idle); call holds the operation and its
   arguments and ret what it returned *)

Idle == call.op = "none"

Init ==
    /\ call = [op |-> "none"]
    /\ ret = [ok |-> TRUE]

\* build_one_filelist for a forecast configuration
ForecastFilelist ==
    /\ Idle
    /\ \E domain \in Domains, config \in FcstConfigs, ref_time \in StartTimes,
       include_t0 \in BOOLEAN,
       window \in {<<NotGiven, NotGiven>>} \cup
                  {<<Hours(a), Hours(b)>> : a \in {0 - 2, 0, 3}, b \in {5, 70}} :
        LET val_start == IF window[1] = NotGiven THEN NotGiven
                         ELSE ref_time + window[1]
            val_end == IF window[1] = NotGiven THEN NotGiven
                       ELSE ref_time + window[2]
        IN  /\ call' = [op |-> "build_one_filelist", mode |-> "forecast",
                        domain |-> domain, config |-> config,
                        ref_time |-> ref_time, val_start |-> val_start,
                        val_end |-> val_end, include_t0 |-> include_t0]
            /\ ret' = build_one_filelist(domain, "channel", config, ref_time,
                          val_start, val_end, "none", include_t0, NotGiven,
                          ref_time)

\* build_one_filelist for an analysis configuration aligned to a forecast
AlignedAnaFilelist ==
    /\ Idle
    /\ \E domain \in Domains, config \in AnaConfigs, ref_time \in StartTimes,
       include_t0 \in BOOLEAN, ana_align_to \in {"none", "medium_range"},
       lag \in ClockLags :
        /\ call' = [op |-> "build_one_filelist", mode |-> "aligned",
                    domain |-> domain, config |-> config,
                    ref_time |-> ref_time, include_t0 |-> include_t0,
                    ana_align_to |-> ana_align_to, utcnow |-> ref_time + lag]
        /\ ret' = build_one_filelist(domain, "channel", config, ref_time,
                      NotGiven, NotGiven, ana_align_to, include_t0, NotGiven,
                      ref_time + lag)

\* build_one_filelist for an analysis configuration within a valid range
RangeAnaFilelist ==
    /\ Idle
    /\ \E domain \in Domains, config \in AnaConfigs, val_start \in StartTimes,
       n \in 0..MaxRangeHours, lag \in ClockLags :
        /\ call' = [op |-> "build_one_filelist", mode |-> "range",
                    domain |-> domain, config |-> config,
                    val_start |-> val_start, val_end |-> val_start + Hours(n),
                    utcnow |-> val_start + lag]
        /\ ret' = build_one_filelist(domain, "channel", config, NotGiven,
                      val_start, val_start + Hours(n), "none", FALSE, NotGiven,
                      val_start + lag)

\* build_reftime_fileparts, as build_filelist_by_reftime calls it
ReftimeFileparts ==
    /\ Idle
    /\ \E domain \in Domains, config \in Configs \ {"latest_ana"},
       ref_time \in StartTimes :
        LET df_config == config_specs(config, domain, nwm_version(ref_time))
        IN  /\ call' = [op |-> "build_reftime_fileparts", domain |-> domain,
                        config |-> config, ref_time |-> ref_time]
            /\ ret' = IF ~df_config.ok THEN df_config
                      ELSE build_reftime_fileparts(ref_time, config,
                               df_config.duration_hrs, df_config.timestep_int,
                               df_config.is_forecast, FALSE)

\* get_filelist_chunks on a manifest of distinct artifacts 1..len
Chunk ==
    /\ Idle
    /\ \E len \in 0..MaxLen, n \in 1..MaxChunk, include_t0 \in BOOLEAN :
        /\ call' = [op |-> "get_filelist_chunks",
                    filelist |-> [k \in 1..len |-> k], n |-> n,
                    include_t0 |-> include_t0]
        /\ ret' = [ok |-> TRUE,
                   chunks |-> get_filelist_chunks([k \in 1..len |-> k], n,
                                                  include_t0)]

\* build_reftime_list
Schedule ==
    /\ Idle
    /\ \E domain \in Domains, config \in Configs,
       day \in {DT(2021, 4, 20, 0), DT(2022, 6, 1, 0)}, h \in 0..23,
       span \in (0..MaxSpanHours) \cup {23},
       order \in {"ascending", "descending"} :
        LET ref_start == day + Hours(h)
        IN  /\ call' = [op |-> "build_reftime_list", domain |-> domain,
                        config |-> config, ref_start |-> ref_start,
                        ref_end |-> ref_start + Hours(span), order |-> order]
            /\ ret' = build_reftime_list(domain, ref_start,
                          ref_start + Hours(span), config, order)

\* build_reftime_list again, on the earliest and the latest reference time of
\* the list the last call returned, in the same order
Reschedule ==
    /\ call.op = "build_reftime_list"
    /\ ret.ok
    /\ ret.list # <<>>
    /\ LET n == Len(ret.list)
           earliest == IF call.order = "descending" THEN ret.list[n]
                       ELSE ret.list[1]
           latest == IF call.order = "descending" THEN ret.list[1]
                     ELSE ret.list[n]
       IN  /\ call' = [op |-> "reschedule", domain |-> call.domain,
                       config |-> call.config, order |-> call.order,
                       ref_start |-> earliest, ref_end |-> latest,
                       first |-> [ref_start |-> call.ref_start,
                                  ref_end |-> call.ref_end, list |-> ret.list]]
           /\ ret' = build_reftime_list(call.domain, earliest, latest,
                         call.config, call.order)

\* reftimes_in_range
InRange ==
    /\ Idle
    /\ \E domain \in Domains, config \in Configs,
       day \in {DT(2021, 4, 20, 0), DT(2022, 6, 1, 0)},
       h \in {0, 5, 10, 13, 16, 21}, span \in 0..MaxSpanHours,
       eval_hr \in {NotGiven, 0, 5, 16} :
        LET ref_start == day + Hours(h)
        IN  /\ call' = [op |-> "reftimes_in_range", domain |-> domain,
                        config |-> config, ref_start |-> ref_start,
                        ref_end |-> ref_start + Hours(span),
                        order |-> "ascending", eval_hr |-> eval_hr]
            /\ ret' = reftimes_in_range(domain, ref_start,
                          ref_start + Hours(span), config, eval_hr)

\* config_specs
Lookup ==
    /\ Idle
    /\ \E domain \in Domains, config \in Configs, version \in {V20, V21, V22},
       member \in Members :
        /\ call' = [op |-> "config_specs", domain |-> domain,
                    config |-> config, version |-> version,
                    member |-> member]
        /\ ret' = config_specs_of_member(config, domain, version, member)

\* build_df_filelists on a batch of reference times, configs and variables,
\* with or without a valid window
Batch ==
    /\ Idle
    /\ \E domain \in Domains, t \in {DT(2021, 4, 19, 0), DT(2022, 6, 1, 0)},
       second \in {0, 6, 12},
       config_list \in {<<"short_range">>, <<"short_range", "analysis_assim">>,
                        <<"medium_range", "short_range">>},
       var_list \in {<<"channel">>, <<"channel", "forcing">>},
       window \in {<<NotGiven, NotGiven>>, <<19, 20>>, <<1, 3>>, <<30, 31>>},
       include_t0 \in BOOLEAN :
        LET ref_time_list == IF second = 0 THEN <<t>>
                             ELSE <<t, t + Hours(second)>>
            val_start == IF window[1] = NotGiven THEN NotGiven
                         ELSE t + Hours(window[1])
            val_end == IF window[1] = NotGiven THEN NotGiven
                       ELSE t + Hours(window[2])
        IN  /\ call' = [op |-> "build_df_filelists", domain |-> domain,
                        ref_time_list |-> ref_time_list,
                        config_list |-> config_list, var_list |-> var_list,
                        val_start |-> val_start, val_end |-> val_end,
                        include_t0 |-> include_t0, utcnow |-> t + Days(30)]
            /\ ret' = build_df_filelists_of_lists(domain,
                          Combinations(ref_time_list, config_list, var_list),
                          val_start, val_end, "none", include_t0, NotGiven,
                          t + Days(30))

\* get_reftime_list
ReftimeList ==
    /\ Idle
    /\ \E domain \in Domains, fcst_config \in FcstConfigs,
       verif_config \in AnaConfigs, eval_timing \in {"past", "current"},
       store_periods \in {<<>>, <<1>>, <<3, 5>>, <<10>>},
       ref_start \in {DT(2022, 6, 1, 0), DT(2022, 6, 1, 5)},
       span \in {0, 12},
       utcnow \in {DT(2022, 6, 10, 12) + 20, DT(2022, 6, 10, 20) + 5} :
        LET specs == [domain |-> domain, fcst_config |-> fcst_config,
                      verif_config |-> verif_config,
                      eval_timing |-> eval_timing,
                      store_periods |-> store_periods,
                      ref_start |-> ref_start,
                      ref_end |-> ref_start + Hours(span)]
        IN  /\ call' = [op |-> "get_reftime_list", specs |-> specs,
                        utcnow |-> utcnow]
            /\ ret' = get_reftime_list(specs, utcnow)

\* get_nearest_ref_times on a list of one or two times on the hour
Nearest ==
    /\ Idle
    /\ \E domain \in Domains, config \in Configs,
       day \in {DT(2021, 4, 20, 0), DT(2022, 6, 1, 0)},
       h \in {0, 3, 5, 6, 12, 16, 17, 20, 23}, second \in {0, 7, 0 - 4},
       time_direction \in {"before", "after"} :
        LET ref_time_list == IF second = 0 THEN <<day + Hours(h)>>
                             ELSE <<day + Hours(h), day + Hours(h + second)>>
        IN  /\ call' = [op |-> "get_nearest_ref_times", domain |-> domain,
                        config |-> config, ref_time_list |-> ref_time_list,
                        time_direction |-> time_direction]
            /\ ret' = get_nearest_ref_times(domain, config, ref_time_list,
                                            time_direction)

\* get_filelists; eval_timing is read for medium_range with latest_ana only
Filelists ==
    /\ Idle
    /\ \E domain \in Domains, fcst_config \in FcstConfigs,
       verif_config \in AnaConfigs,
       ref_time \in {DT(2021, 4, 1, 0), DT(2022, 6, 1, 0), DT(2022, 6, 1, 17)},
       eval_timing \in {"past", "current"},
       store_periods \in {<<>>, <<1>>, <<2>>, <<3, 5>>, <<10>>},
       lag \in {Hours(30) + 20, Hours(100) + 40, Days(30)} :
        LET specs == [domain |-> domain, fcst_config |-> fcst_config,
                      verif_config |-> verif_config,
                      eval_timing |-> eval_timing,
                      store_periods |-> store_periods, ref_time |-> ref_time]
        IN  /\ eval_timing = "current" =>
                fcst_config = "medium_range" /\ verif_config = "latest_ana"
            /\ call' = [op |-> "get_filelists", specs |-> specs,
                        utcnow |-> ref_time + lag]
            /\ ret' = get_filelists(specs, "channel", 0, ref_time + lag)

\* the reference times a run of bias_main has gone through at most
MaxCalls == 3

\* the retrievals that raise in a call: none, the file valid at t0, or the
\* file valid an hour before
Failing(t0) == {{}, {t0}, {t0 - Hours(1)}}

\* the first pass of the loop of bias_main: get_recent_ana with the empty
\* frame and a store that holds nothing
FirstRecentAna ==
    /\ Idle
    /\ \E domain \in Domains, ana_config \in AnaConfigs,
       t0 \in {DT(2021, 4, 20, 12), DT(2022, 6, 10, 0)},
       bias_period \in {1}, lag \in {Hours(3), Days(30)} :
        \E failing \in Failing(t0) :
            LET specs == [domain |-> domain, ana_config |-> ana_config]
            IN  /\ call' = [op |-> "get_recent_ana", specs |-> specs,
                            t0 |-> t0, bias_period |-> bias_period,
                            df |-> {}, store |-> {}, failing |-> failing,
                            last_failed |-> {}, n |-> 1,
                            utcnow |-> t0 + lag]
                /\ ret' = get_recent_ana(specs, t0, bias_period, {}, {},
                                         failing, t0 + lag)

\* a later pass of the loop of bias_main: the next reference time, with the
\* frame the pass before returned
NextRecentAna ==
    /\ call.op = "get_recent_ana"
    /\ ret.ok
    /\ call.n < MaxCalls
    /\ \E step \in {Hours(1), Hours(6)} :
        \E failing \in Failing(call.t0 + step) :
            /\ call' = [call EXCEPT !.t0 = @ + step, !.df = ret.df,
                                    !.store = ret.store,
                                    !.failing = failing,
                                    !.last_failed = ret.failed,
                                    !.n = @ + 1, !.utcnow = @ + step]
            /\ ret' = get_recent_ana(call.specs, call.t0 + step,
                          call.bias_period, ret.df, ret.store, failing,
                          call.utcnow + step)

BiasNext == FirstRecentAna \/ NextRecentAna

BuildNext == ForecastFilelist \/ AlignedAnaFilelist \/ RangeAnaFilelist
             \/ ReftimeFileparts
SchedNext == Schedule \/ Reschedule \/ InRange \/ ReftimeList

Next == BuildNext \/ Chunk \/ SchedNext \/ Filelists \/ Lookup \/ Batch
        \/ Nearest \/ BiasNext

Spec == Init /\ [][Next]_vars
SpecBuild == Init /\ [][BuildNext]_vars
SpecChunk == Init /\ [][Chunk]_vars
SpecSched == Init /\ [][SchedNext]_vars
SpecFilelists == Init /\ [][Filelists]_vars
SpecCatalog == Init /\ [][Lookup]_vars
SpecBatch == Init /\ [][Batch]_vars
SpecNearest == Init /\ [][Nearest]_vars
SpecBias == Init /\ [][BiasNext]_vars

----------------------------------------------------------------------------
(* properties of the manifest builders (SpecBuild) *)

\* the reference time of the run a row is read from (date directory plus run
\* hour) and the row's signed offset in minutes (f positive, tm negative)
RunTime(row) == Days(row.datedir) + Hours(row.ref_hr_string)
Offset(row) ==
    LET ts == row.ts_hr_string
        m == Hours(ts[2]) + (IF Len(ts) = 3 THEN ts[3] ELSE 0)
    IN  IF ts[1] = "f" THEN m ELSE 0 - m

\* a builder has returned a table of filename parts
Built ==
    /\ call.op \in {"build_one_filelist", "build_reftime_fileparts"}
    /\ ret.ok

\* C1: every row a manifest builder returns records as its valid time the
\* reference time of its source run plus its signed offset
C1_ValidTimeIdentity ==
    Built =>
        \A k \in 1..Len(ret.parts) :
            ret.parts[k].val_time = RunTime(ret.parts[k]) + Offset(ret.parts[k])

\* the splicer get_latest_ana_fileparts has returned
Spliced ==
    /\ call.op = "build_one_filelist"
    /\ call.config = "latest_ana"
    /\ call.domain = "conus"
    /\ ret.ok

\* the number of hourly valid times of the requested range
NRequested == (ret.list_end - ret.list_start) \div 60 + 1

Standard(row) == row.config = "analysis_assim"
Extended(row) == row.config = "analysis_assim_extend"

\* C2: the splicer returns one row per requested valid time, of which the 3
\* most recent (all of them when there are fewer) are Standard at offsets
\* tm02, tm01, tm00 of the run issued at the final valid time; the
\* assignment makes or changes no other row
C2_TailIsStandard ==
    Spliced =>
        LET n == NRequested
        IN  /\ Len(ret.parts) = n
            /\ \A k \in 1..n :
                /\ ret.parts[k].label = k - 1
                /\ k > n - 3 =>
                    /\ Standard(ret.parts[k])
                    /\ RunTime(ret.parts[k]) = ret.list_end
                    /\ ret.parts[k].ts_hr_string = <<"tm", n - k>>

\* C3: walking backward from the 4th most recent valid time, a row is
\* Extended exactly when its valid time or a more recent one of the walk has
\* hour 16, and Standard otherwise: one crossover, at a 16z valid time, and
\* never back
C3_SingleCrossover ==
    Spliced =>
        LET n == NRequested
        IN  \A k \in 1..(n - 3) :
                IF \E j \in k..(n - 3) : Hour(ret.parts[j].val_time) = 16
                THEN Extended(ret.parts[k])
                ELSE Standard(ret.parts[k])

\* a splice that walks through Standard rows, crosses over at 16z and passes
\* the hours 17 and 16 of an older day as Extended
C3_Witness ==
    /\ Spliced
    /\ NRequested > 3
    /\ Standard(ret.parts[NRequested - 3])
    /\ \E k \in 1..(NRequested - 3) :
        /\ Extended(ret.parts[k])
        /\ Hour(ret.parts[k].val_time) = 17
    /\ \E k \in 1..(NRequested - 3) :
        /\ Extended(ret.parts[k])
        /\ Hour(ret.parts[k].val_time) = 16
        /\ Extended(ret.parts[k + 1])

\* C4 as stated: the offset of every Extended row is in 4..27
C4_CounterIn4To27 ==
    Spliced =>
        \A k \in 1..Len(ret.parts) :
            Extended(ret.parts[k]) => ret.parts[k].ts_hr_string[2] \in 4..27

\* C4: the offset of every Extended row is in 0..27, and it is c < 4 only at
\* the c-th valid time before the 16z crossover valid time, where the walk
\* switched from Standard
C4_CounterIn0To27 ==
    Spliced =>
        LET n == NRequested
        IN  \A k \in 1..(n - 3) :
                Extended(ret.parts[k]) =>
                    LET c == ret.parts[k].ts_hr_string[2]
                    IN  /\ ret.parts[k].ts_hr_string = <<"tm", c>>
                        /\ c \in 0..27
                        /\ c < 4 =>
                            /\ k + c <= n - 3
                            /\ Hour(ret.parts[k + c].val_time) = 16
                            /\ Extended(ret.parts[k + c])
                            /\ k + c < n - 3 => Standard(ret.parts[k + c + 1])

\* a splice whose Extended rows start at offset 0 and reach the wrap from 27
\* to 4
C4_Witness ==
    /\ Spliced
    /\ \E k \in 1..(NRequested - 3) :
        /\ Extended(ret.parts[k])
        /\ ret.parts[k].ts_hr_string = <<"tm", 0>>
    /\ \E k \in 1..(NRequested - 4) :
        /\ Extended(ret.parts[k])
        /\ ret.parts[k].ts_hr_string = <<"tm", 4>>
        /\ ret.parts[k + 1].ts_hr_string = <<"tm", 27>>

\* get_ana_fileparts has returned rows of the standard analysis
StandardBuilt ==
    /\ call.op = "build_one_filelist"
    /\ \/ call.config = "analysis_assim"
       \/ call.config = "latest_ana" /\ call.domain # "conus"
    /\ ret.ok

\* the rows built by the tm02 convention: all of them, but for the rows
\* within the last hour of a latest_ana table
Tm02Row(k) ==
    call.config = "latest_ana" =>
        ret.parts[k].val_time < ret.parts[Len(ret.parts)].val_time - Hours(1)

\* C5: a standard-analysis row built by the tm02 convention is read from the
\* run of the hour of its valid time + 2h, at offset tm02 when the valid
\* minute is 0 and at offset tm01 with 60 - minute minutes otherwise; the
\* valid minutes are 0, 15, 30, 45
C5_Tm02Convention ==
    StandardBuilt =>
        \A k \in 1..Len(ret.parts) :
            Tm02Row(k) =>
                LET row == ret.parts[k]
                    V == row.val_time
                    ts == row.ts_hr_string
                IN  /\ Minute(V) \in {0, 15, 30, 45}
                    /\ row.datedir = DateOf(V + Hours(2))
                    /\ row.ref_hr_string = Hour(V + Hours(2))
                    /\ IF Minute(V) = 0
                       THEN ts = <<"tm", 2>> \/ ts = <<"tm", 2, 0>>
                       ELSE ts = <<"tm", 1, 60 - Minute(V)>>

\* a table with rows at the valid minutes 0 and 45 built by the convention
C5_Witness ==
    /\ StandardBuilt
    /\ \E k \in 1..Len(ret.parts) :
        /\ Tm02Row(k)
        /\ Minute(ret.parts[k].val_time) = 45
        /\ ret.parts[k].ts_hr_string = <<"tm", 1, 15>>
    /\ \E k \in 1..Len(ret.parts) :
        /\ Tm02Row(k)
        /\ Minute(ret.parts[k].val_time) = 0
        /\ ret.parts[k].ts_hr_string = <<"tm", 2, 0>>

----------------------------------------------------------------------------
(* properties of the chunker (SpecChunk) *)

Chunked == call.op = "get_filelist_chunks"

\* the artifacts of chunk c other than the one carried over from chunk c - 1
Own(c) ==
    IF call.include_t0 /\ c > 1 THEN Tail(ret.chunks[c]) ELSE ret.chunks[c]

\* the own artifacts of the chunks 1..c, in order
RECURSIVE ConcatOwn(_)
ConcatOwn(c) == IF c = 0 THEN <<>> ELSE ConcatOwn(c - 1) \o Own(c)

\* C6: with include_t0 every chunk but the first begins with the last
\* artifact of the chunk before it, the first chunk begins with the first
\* artifact of the manifest, and the chunks without the carried artifacts
\* concatenate to the manifest
C6_OverlapPartition ==
    Chunked =>
        /\ ConcatOwn(Len(ret.chunks)) = call.filelist
        /\ Len(ret.chunks) >= 1
        /\ call.filelist # <<>> =>
            /\ ret.chunks[1] # <<>>
            /\ ret.chunks[1][1] = call.filelist[1]
        /\ call.include_t0 =>
            \A c \in 2..Len(ret.chunks) :
                /\ ret.chunks[c] # <<>>
                /\ ret.chunks[c][1] = ret.chunks[c - 1][Len(ret.chunks[c - 1])]

\* a manifest in three chunks or more with carried artifacts, the last chunk
\* shorter than the others
C6_Witness ==
    /\ Chunked
    /\ call.include_t0
    /\ Len(ret.chunks) >= 3
    /\ Len(ret.chunks[Len(ret.chunks)]) < Len(ret.chunks[2])

\* C7 as stated: no chunk holds more than n artifacts of its own
C7_OwnAtMostN ==
    Chunked =>
        \A c \in 1..Len(ret.chunks) : Len(Own(c)) <= call.n

\* C7: no chunk holds more than n artifacts of its own, but for the first
\* chunk of a manifest longer than n split with include_t0, which holds
\* n + 1: the manifest's first artifact and the n after it; no chunk holds
\* more than n + 1 artifacts with include_t0, nor more than n without
C7_OwnAtMostNButFirst ==
    Chunked =>
        \A c \in 1..Len(ret.chunks) :
            /\ Len(ret.chunks[c]) <= (IF call.include_t0 THEN call.n + 1
                                      ELSE call.n)
            /\ \/ Len(Own(c)) <= call.n
               \/ /\ c = 1
                  /\ call.include_t0
                  /\ Len(call.filelist) > call.n
                  /\ ret.chunks[1] = SubSeq(call.filelist, 1, call.n + 1)

\* a first chunk of n + 1 artifacts followed by a full chunk
C7_Witness ==
    /\ Chunked
    /\ call.include_t0
    /\ Len(ret.chunks) >= 2
    /\ Len(ret.chunks[1]) = call.n + 1
    /\ Len(Own(2)) = call.n

----------------------------------------------------------------------------
(* properties of get_filelists (SpecFilelists) *)

\* get_filelists has compared the chunks with the freshest analysis time
Compared ==
    /\ call.op = "get_filelists"
    /\ ret.ok \/ ret.err = "NoFeasiblePeriod"
    /\ ret.n_chunks > 1

\* the chunks whose maximum reference time is not later than the bound
Feasible ==
    {c \in 1..ret.n_chunks : ret.max_list_time[c] <= ret.last_ana_valtime}

Requested == SeqToSet(call.specs.store_periods)

\* C8 as stated: the chunks returned are the feasible ones, and the call
\* fails only if no chunk is feasible
C8_KeptIffFeasible ==
    Compared =>
        IF ret.ok THEN ret.keep = Feasible ELSE Feasible = {}

\* C8: the call fails exactly when no requested store period is the number
\* of a feasible chunk; otherwise the chunks returned are the feasible ones
\* numbered up to the largest requested store period that is feasible
C8_KeptUpToStorePeriod ==
    Compared =>
        IF ret.ok
        THEN /\ Requested \cap Feasible # {}
             /\ ret.keep = {c \in Feasible :
                               \E p \in Requested \cap Feasible : c <= p}
        ELSE Requested \cap Feasible = {}

\* a call that drops a feasible chunk beyond the requested store periods,
\* next to infeasible ones
C8_Witness ==
    /\ Compared
    /\ ret.ok
    /\ ret.keep # {}
    /\ ret.keep # Feasible
    /\ Feasible # 1..ret.n_chunks

----------------------------------------------------------------------------
(* properties of the scheduler (SpecSched) *)

\* C9: scheduling the range from the earliest to the latest reference time
\* of a schedule that is not empty returns the same schedule
C9_Idempotent ==
    call.op = "reschedule" => ret.ok /\ ret.list = call.first.list

\* C10: every reference time of a schedule is on the cadence of the
\* configuration the call resolved: its hour is base_run_hour plus a
\* multiple of 24 / runs_per_day
C10_OnCadence ==
    (call.op \in {"build_reftime_list", "reschedule"} /\ ret.ok) =>
        LET df_config == config_specs(call.config, call.domain,
                                      nwm_version(call.ref_start))
            interval == 24 \div df_config.runs_per_day
        IN  \A k \in 1..Len(ret.list) :
                (Hour(ret.list[k]) - df_config.base_run_hour) % interval = 0

\* the reference time the schedule starts at: the first hour from ref_start
\* on that is on the cadence when the runs are on the hours that are
\* multiples of the interval (base_run_hour 0, fewer than 24 runs a day) or
\* at one hour of the day (base_run_hour > 0, one run a day), and ref_start
\* otherwise
Snapped(ref_start, runs_per_day, base_run_hour) ==
    LET interval == 24 \div runs_per_day
        OnRun(t) == IF base_run_hour = 0 /\ runs_per_day < 24
                    THEN Hour(t) % interval = 0
                    ELSE IF base_run_hour > 0 /\ runs_per_day = 1
                    THEN Hour(t) = base_run_hour
                    ELSE TRUE
        first == CHOOSE d \in 0..23 :
                     /\ OnRun(ref_start + Hours(d))
                     /\ \A e \in 0..(d - 1) : ~OnRun(ref_start + Hours(e))
    IN  ref_start + Hours(first)

\* the scheduler has returned the schedule of the range of the call
Scheduled ==
    /\ \/ call.op \in {"build_reftime_list", "reschedule"}
       \/ call.op = "reftimes_in_range" /\ call.eval_hr = NotGiven
    /\ ret.ok

SpansVersions == nwm_version(call.ref_start) # nwm_version(call.ref_end)

\* C12: a call of the scheduler on a range whose start and end resolve to
\* different versions fails with the version-mismatch error
C12_SpanRejected ==
    ( /\ call.op \in {"build_reftime_list", "reftimes_in_range"}
      /\ SpansVersions ) =>
        ~ret.ok /\ ret.err = "VersionMismatch"

\* C13: when the end of the range is before the snapped start, the scheduler
\* raises no error and returns a sequence of no elements
C13_EmptySchedule ==
    ( /\ call.op \in {"build_reftime_list", "reftimes_in_range"}
      /\ ~SpansVersions
      /\ config_specs(call.config, call.domain,
                      nwm_version(call.ref_start)).ok
      /\ call.config # "latest_ana"
      /\ call.op = "reftimes_in_range" => call.eval_hr = NotGiven ) =>
        LET df_config == config_specs(call.config, call.domain,
                                      nwm_version(call.ref_start))
        IN  call.ref_end < Snapped(call.ref_start, df_config.runs_per_day,
                                   df_config.base_run_hour)
                => ret.ok /\ Len(ret.list) = 0

----------------------------------------------------------------------------
(* properties of the configuration catalog (SpecCatalog) *)

\* the combinations of domain, configuration and version that exist: all but
\* medium_range and analysis_assim_extend outside conus, and puertorico
\* before version 2.1
Exists(domain, config, version) ==
    /\ domain # "conus" =>
           config \notin {"medium_range", "analysis_assim_extend"}
    /\ domain = "puertorico" => version >= V21

\* C14: the lookup of a combination that does not exist fails with the error
\* of an unsupported configuration, and the lookup of a combination that
\* exists returns one specification
C14_LookupTotal ==
    call.op = "config_specs" =>
        IF Exists(call.domain, call.config, call.version)
        THEN ret.ok /\ Len(ret.rows) = 1
        ELSE /\ ~ret.ok
             /\ ret.err \in {"ConfigNotInDomain", "DomainNotInVersion"}

\* the lookup of medium_range in hawaii at version 2.1 has failed
C14_Witness ==
    /\ call.op = "config_specs"
    /\ call.domain = "hawaii"
    /\ call.config = "medium_range"
    /\ call.version = V21
    /\ ~ret.ok
    /\ ret.err = "ConfigNotInDomain"

----------------------------------------------------------------------------
(* properties of the forecast builder (SpecBuild) *)

\* build_one_filelist has returned the manifest of a forecast
ForecastBuilt ==
    /\ call.op = "build_one_filelist"
    /\ call.mode = "forecast"
    /\ ret.ok

\* the row of the catalog of the forecast of the call
FcstSpecs == config_specs(call.config, call.domain, nwm_version(call.ref_time))

\* the encoded offset of m minutes: the whole hours, and the remaining minutes
\* when the timestep is a fraction of an hour
Encoded(pre, m, ts_int) ==
    IF ts_int % 60 # 0 THEN <<pre, m \div 60, m % 60>> ELSE <<pre, m \div 60>>

\* the artifact of the forecast run of the call at offset m minutes
IsForecastArtifact(f, m) ==
    /\ f.config = call.config
    /\ f.datedir = DateOf(call.ref_time)
    /\ f.ref_hr_string = Hour(call.ref_time)
    /\ f.ts_hr_string = Encoded("f", m, FcstSpecs.timestep_int)

\* the artifact tm00 of the standard analysis run at the reference time
IsT0Artifact(f) ==
    /\ f.config = "analysis_assim"
    /\ f.datedir = DateOf(call.ref_time)
    /\ f.ref_hr_string = Hour(call.ref_time)
    /\ f.ts_hr_string = Encoded("tm", 0, FcstSpecs.timestep_int)

\* C15: the manifest of a forecast built without a valid window holds the
\* duration / timestep artifacts at the offsets timestep, 2 * timestep, ...,
\* duration, in this order, after the artifact tm00 of the standard analysis
\* of the reference time when include_t0 is set; the offsets of a timestep
\* under an hour are encoded as whole hours and remaining minutes
C15_FullForecast ==
    (ForecastBuilt /\ call.val_start = NotGiven) =>
        LET ts == FcstSpecs.timestep_int
            n == Hours(FcstSpecs.duration_hrs) \div ts
            t0 == IF call.include_t0 THEN 1 ELSE 0
        IN  /\ n * ts = Hours(FcstSpecs.duration_hrs)
            /\ Len(ret.filelist) = n + t0
            /\ \A j \in 1..n : IsForecastArtifact(ret.filelist[j + t0], j * ts)
            /\ call.include_t0 => IsT0Artifact(ret.filelist[1])

\* the 48 hours of hawaii short_range at 15 minutes, after the tm0000 of the
\* analysis
C15_Witness ==
    /\ ForecastBuilt
    /\ call.val_start = NotGiven
    /\ call.include_t0
    /\ call.domain = "hawaii"
    /\ Len(ret.filelist) = 193
    /\ ret.filelist[1].ts_hr_string = <<"tm", 0, 0>>
    /\ ret.filelist[4].ts_hr_string = <<"f", 0, 45>>
    /\ ret.filelist[193].ts_hr_string = <<"f", 48, 0>>

\* the offsets, in minutes, of the artifacts of the run of the call: 0 when
\* include_t0 is set, then timestep, 2 * timestep, ..., duration
RunOffsets ==
    LET ts == FcstSpecs.timestep_int
        n == Hours(FcstSpecs.duration_hrs) \div ts
    IN  IF call.include_t0 THEN [j \in 1..(n + 1) |-> (j - 1) * ts]
        ELSE [j \in 1..n |-> j * ts]

\* the offsets of the run whose valid time is in the valid window of the call
OffsetsInWindow ==
    SelectSeq(RunOffsets,
              LAMBDA m : /\ call.ref_time + m >= call.val_start
                         /\ call.ref_time + m <= call.val_end
                         /\ m <= Hours(FcstSpecs.duration_hrs))

\* C16: the manifest of a forecast built with a valid window holds the
\* artifacts of the run whose valid time is in the window and not after the
\* end of the forecast, and no other artifact
C16_WindowExact ==
    (ForecastBuilt /\ call.val_start # NotGiven) =>
        /\ Len(ret.filelist) = Len(OffsetsInWindow)
        /\ \A k \in 1..Len(OffsetsInWindow) :
               IF OffsetsInWindow[k] = 0 THEN IsT0Artifact(ret.filelist[k])
               ELSE IsForecastArtifact(ret.filelist[k], OffsetsInWindow[k])

----------------------------------------------------------------------------
(* properties of the batch of manifests (SpecBatch) *)

\* the combinations of the batch of the call, in the order of the batch
BatchCombos ==
    Combinations(call.ref_time_list, call.config_list, call.var_list)

\* the manifest of the k-th combination of the batch, built on its own
ManifestAt(k) ==
    build_one_filelist(call.domain, BatchCombos[k].variable,
        BatchCombos[k].config, BatchCombos[k].ref_time, call.val_start,
        call.val_end, "none", call.include_t0, NotGiven, call.utcnow)

\* C17: a batch none of whose manifests raises returns without error; it
\* returns no row for a combination whose manifest is empty, and for every
\* other combination one row, labelled with the position of the combination
\* in the batch, that holds the manifest of the combination
C17_EmptySkipped ==
    call.op = "build_df_filelists" =>
        LET n == Len(BatchCombos)
        IN  (\A k \in 1..n : ManifestAt(k).ok) =>
                /\ ret.ok
                /\ \A j \in 1..Len(ret.rows) :
                       /\ ret.rows[j].ind + 1 \in 1..n
                       /\ ret.rows[j].filelist # <<>>
                       /\ j > 1 => ret.rows[j - 1].ind < ret.rows[j].ind
                /\ \A k \in 1..n :
                       IF ManifestAt(k).filelist = <<>>
                       THEN \A j \in 1..Len(ret.rows) : ret.rows[j].ind # k - 1
                       ELSE \E j \in 1..Len(ret.rows) :
                                /\ ret.rows[j].ind = k - 1
                                /\ ret.rows[j].filelist = ManifestAt(k).filelist
                                /\ ret.rows[j].ref_time = BatchCombos[k].ref_time
                                /\ ret.rows[j].config = BatchCombos[k].config
                                /\ ret.rows[j].variable = BatchCombos[k].variable

\* a batch whose first manifest is empty after the clipping to the window
\* and whose later manifests are not
C17_Witness ==
    /\ call.op = "build_df_filelists"
    /\ ret.ok
    /\ call.val_start # NotGiven
    /\ Len(BatchCombos) >= 3
    /\ Len(ret.rows) >= 2
    /\ ret.rows[1].ind >= 1
    /\ ret.rows[Len(ret.rows)].ind = Len(BatchCombos) - 1

----------------------------------------------------------------------------
(* properties of the builds of the extended analysis (SpecBuild) *)

\* a build of analysis_assim_extend for conus at reference time
\* 2022-06-01T16:00
ExtAt16 ==
    /\ call.op \in {"build_reftime_fileparts", "build_one_filelist"}
    /\ call.op = "build_one_filelist" =>
           call.mode = "aligned" /\ call.ana_align_to = "none"
    /\ call.domain = "conus"
    /\ call.config = "analysis_assim_extend"
    /\ call.ref_time = DT(2022, 6, 1, 16)

\* the 13-hour split rule: an artifact valid at an hour 0..12 is read from the
\* 16z run of the day of its valid time, and an artifact valid at an hour
\* 13..23 from the 16z run of the day after
SplitRule(row) ==
    LET V == RunTime(row) + Offset(row)
    IN  /\ row.ref_hr_string = 16
        /\ IF Hour(V) < 13 THEN row.datedir = DateOf(V)
           ELSE row.datedir = DateOf(V) + 1

\* the date directories of 2022-06-01 and 2022-06-02
June1And2 == {DateOf(DT(2022, 6, 1, 0)), DateOf(DT(2022, 6, 2, 0))}

\* the artifacts a build has returned: the rows of the table of parts of
\* build_reftime_fileparts, the manifest of build_one_filelist
Artifacts ==
    IF call.op = "build_reftime_fileparts" THEN ret.parts ELSE ret.filelist

\* C18 as stated: the build yields 28 artifacts at the offsets tm00..tm27, or
\* the artifacts at tm04..tm27, each in the date directory of 2022-06-01 or
\* 2022-06-02 that the 13-hour split rule gives
C18_SplitRuleDated ==
    ExtAt16 =>
        /\ ret.ok
        /\ \/ /\ Len(Artifacts) = 28
              /\ {Artifacts[k].ts_hr_string : k \in 1..Len(Artifacts)}
                     = {<<"tm", o>> : o \in 0..27}
           \/ {Artifacts[k].ts_hr_string : k \in 1..Len(Artifacts)}
                  = {<<"tm", o>> : o \in 4..27}
        /\ \A k \in 1..Len(Artifacts) :
               /\ Artifacts[k].datedir \in June1And2
               /\ SplitRule(Artifacts[k])

\* C18: the build by reference time yields the 28 artifacts tm27, tm26, ...,
\* tm00 of the 16z run of 2022-06-01, all in the date directory of
\* 2022-06-01, of which tm04..tm27 and no other are where the 13-hour split
\* rule puts their valid time; the build aligned to short_range yields the
\* 18 artifacts (19 with include_t0) of the valid times of the forecast, one
\* hour apart, each of a 16z run in the date directory of 2022-06-01 or
\* 2022-06-02
C18_RunOfReferenceTime ==
    ExtAt16 =>
        /\ ret.ok
        /\ \A k \in 1..Len(Artifacts) :
               /\ Artifacts[k].config = "analysis_assim_extend"
               /\ Artifacts[k].ref_hr_string = 16
               /\ Artifacts[k].datedir \in June1And2
        /\ call.op = "build_reftime_fileparts" =>
               /\ Len(Artifacts) = 28
               /\ \A k \in 1..28 :
                      /\ Artifacts[k].ts_hr_string = <<"tm", 28 - k>>
                      /\ Artifacts[k].datedir = DateOf(call.ref_time)
                      /\ SplitRule(Artifacts[k]) <=> 28 - k >= 4
        /\ call.op = "build_one_filelist" =>
               LET t0 == IF call.include_t0 THEN 1 ELSE 0
               IN  /\ Len(Artifacts) = 18 + t0
                   /\ \A k \in 1..(18 + t0) :
                          /\ RunTime(Artifacts[k]) + Offset(Artifacts[k])
                                 = call.ref_time + Hours(k - t0)
                          /\ Len(Artifacts[k].ts_hr_string) = 2
                          /\ Artifacts[k].ts_hr_string[1] = "tm"
                          /\ Artifacts[k].ts_hr_string[2] \in 0..27

\* the 28 artifacts of the 16z run of 2022-06-01, from tm27 to tm00
C18_Witness ==
    /\ ExtAt16
    /\ call.op = "build_reftime_fileparts"
    /\ ret.ok
    /\ Len(ret.parts) = 28
    /\ ret.parts[1].ts_hr_string = <<"tm", 27>>
    /\ ret.parts[28].ts_hr_string = <<"tm", 0>>
    /\ ret.parts[28].datedir = DateOf(DT(2022, 6, 1, 0))

----------------------------------------------------------------------------
(* the wall clock and the manifests (SpecBuild) *)

\* the call of build_one_filelist of the state made again at the wall clock
\* utcnow
BuiltAt(utcnow) ==
    IF call.mode = "forecast"
    THEN build_one_filelist(call.domain, "channel", call.config,
             call.ref_time, call.val_start, call.val_end, "none",
             call.include_t0, NotGiven, utcnow)
    ELSE IF call.mode = "aligned"
    THEN build_one_filelist(call.domain, "channel", call.config,
             call.ref_time, NotGiven, NotGiven, call.ana_align_to,
             call.include_t0, NotGiven, utcnow)
    ELSE build_one_filelist(call.domain, "channel", call.config, NotGiven,
             call.val_start, call.val_end, "none", FALSE, NotGiven, utcnow)

\* a wall clock at which every run the call can read is published
LateClock ==
    (IF call.mode = "range" THEN call.val_start ELSE call.ref_time) + Days(60)

\* the valid times of the artifacts of a manifest, in order
ValidTimes(filelist) ==
    [k \in 1..Len(filelist) |-> RunTime(filelist[k]) + Offset(filelist[k])]

\* the manifest returned agrees with the manifest late, built with the same
\* arguments at another wall clock: the calls raise alike, the valid times
\* are the same in the same order, and the manifests of every configuration
\* but the extended analysis are equal
AgreesWith(late) ==
    /\ ret.ok = late.ok
    /\ ret.ok =>
           /\ ValidTimes(ret.filelist) = ValidTimes(late.filelist)
           /\ call.config # "analysis_assim_extend" =>
                  ret.filelist = late.filelist

\* C19: a manifest built at any wall clock has the valid times, in the same
\* order, of the manifest built with the same arguments at a clock at which
\* every run is published (so two clocks never give manifests of different
\* lengths or valid times), and the manifests of the forecasts and of the
\* standard analysis do not depend on the clock
C19_ClockOnlySource ==
    call.op = "build_one_filelist" => AgreesWith(BuiltAt(LateClock))

\* a manifest of the extended analysis with an artifact of another run than
\* at the late clock: the run of the day after was not published
DiffersInRun(late) ==
    /\ ret.filelist # late.filelist
    /\ \E k \in 1..Len(ret.filelist) :
           /\ ret.filelist[k].datedir # late.filelist[k].datedir
           /\ ret.filelist[k].ts_hr_string[2] \in 0..3

C19_Witness ==
    /\ call.op = "build_one_filelist"
    /\ call.config = "analysis_assim_extend"
    /\ ret.ok
    /\ DiffersInRun(BuiltAt(LateClock))

----------------------------------------------------------------------------
(* the values passed to the operations (SpecSched) *)

\* C20: when get_reftime_list returns, the specs of the caller (ref_start,
\* ref_end and the other fields) are as they were passed
C20_SpecsUnchanged ==
    (call.op = "get_reftime_list" /\ ret.ok) => ret.specs = call.specs

----------------------------------------------------------------------------
(* properties of the nearest reference times (SpecNearest) *)

\* t is a reference time of the cadence of the configuration row: its hour
\* is base_run_hour plus a multiple of 24 / runs_per_day
OnCadence(t, df_config) ==
    (Hour(t) - df_config.base_run_hour) % (24 \div df_config.runs_per_day) = 0

\* get_nearest_ref_times has returned a list
NearestFound == call.op = "get_nearest_ref_times" /\ ret.ok

\* r is the reference time nearest to t in the direction of the call, within
\* one interval of the cadence
NearestTo(r, t, df_config) ==
    LET interval == Hours(24 \div df_config.runs_per_day)
        run_times == {t + Hours(d) : d \in (0 - 24)..24}
    IN  /\ OnCadence(r, df_config)
        /\ IF call.time_direction = "before"
           THEN /\ t - interval <= r /\ r <= t
                /\ \A q \in run_times :
                       (OnCadence(q, df_config) /\ q <= t) => q <= r
           ELSE /\ t <= r /\ r <= t + interval
                /\ \A q \in run_times :
                       (OnCadence(q, df_config) /\ t <= q) => r <= q

\* C21: get_nearest_ref_times returns one reference time for every time of
\* its list, in the order of the list, and each is on the cadence of the
\* configuration and the nearest such time at or before (direction before)
\* or at or after (direction after) the time of the list, not further than
\* one interval from it
C21_NearestInDirection ==
    NearestFound =>
        /\ Len(ret.list) = Len(call.ref_time_list)
        /\ \A k \in 1..Len(ret.list) :
               NearestTo(ret.list[k], call.ref_time_list[k],
                         config_specs(call.config, call.domain,
                                      nwm_version(call.ref_time_list[1])))

----------------------------------------------------------------------------
(* an analysis manifest and the forecast it is aligned to (SpecBuild) *)

\* the valid times of the rows a call of build_one_filelist puts in its
\* manifest, in order
ValidTimesOf(built) ==
    LET kept == RowsInRange(built.parts, built.list_start, built.list_end)
    IN  [k \in 1..Len(kept) |-> kept[k].val_time]

\* build_one_filelist has returned the manifest of an analysis configuration
\* aligned to a forecast
AlignedBuilt ==
    /\ call.op = "build_one_filelist"
    /\ call.mode = "aligned"
    /\ ret.ok

\* the manifest of the forecast the analysis of the call is aligned to, for
\* the same reference time and include_t0
Companion ==
    build_one_filelist(call.domain, "channel",
        IF call.ana_align_to = "none" THEN "short_range"
        ELSE call.ana_align_to,
        call.ref_time, NotGiven, NotGiven, "none", call.include_t0, NotGiven,
        call.utcnow)

\* the manifest returned has as many artifacts as the manifest fcst, with the
\* same valid times in the same order
SameTimesAs(fcst) ==
    /\ fcst.ok
    /\ Len(ret.filelist) = Len(fcst.filelist)
    /\ ValidTimesOf(ret) = ValidTimesOf(fcst)

\* C22: the manifest of an analysis configuration aligned to a forecast has
\* as many artifacts as the manifest of that forecast (short_range when none
\* is named) for the same reference time and include_t0, with the same valid
\* times in the same order
C22_AlignedToCompanion == AlignedBuilt => SameTimesAs(Companion)

----------------------------------------------------------------------------
(* the source runs of the extended analysis (SpecBuild) *)

\* build_one_filelist has returned the manifest of analysis_assim_extend
ExtBuilt ==
    /\ call.op = "build_one_filelist"
    /\ call.config = "analysis_assim_extend"
    /\ ret.ok

\* the 16z run of the day after the valid time val_time is published at the
\* wall clock of the call: its 19z is not later than the clock
NextDayPublished(val_time) ==
    Days(DateOf(val_time) + 1) + Hours(19) <= call.utcnow

\* row k of the table is read from the 16z run of day datedir at timestep
\* tm<ts_hr>, and artifact k of the manifest is the file of that row
SourcedFrom(k, datedir, ts_hr) ==
    /\ ret.parts[k].config = "analysis_assim_extend"
    /\ ret.parts[k].datedir = datedir
    /\ ret.parts[k].ref_hr_string = 16
    /\ ret.parts[k].ts_hr_string = <<"tm", ts_hr>>
    /\ k <= Len(ret.filelist)
    /\ ret.filelist[k].datedir = datedir
    /\ ret.filelist[k].ref_hr_string = 16
    /\ ret.filelist[k].ts_hr_string = <<"tm", ts_hr>>

\* C23: an artifact of the extended analysis valid at an hour h in 0..12 is
\* tm(16 - h) of the 16z run of the day of its valid time, and one valid at an
\* hour h in 13..23 is tm(40 - h) of the 16z run of the day after, whenever
\* 19z of that day is not later than the wall clock
C23_ExtSplit ==
    ExtBuilt =>
        \A k \in 1..Len(ret.parts) :
            LET val_time == ret.parts[k].val_time
                h == Hour(val_time)
            IN  /\ h <= 12 => SourcedFrom(k, DateOf(val_time), 16 - h)
                /\ (h >= 13 /\ NextDayPublished(val_time)) =>
                       SourcedFrom(k, DateOf(val_time) + 1, 40 - h)

\* a manifest with an artifact valid at 12z and one valid at 13z whose run of
\* the day after is published
C23_Witness ==
    /\ ExtBuilt
    /\ \E j, k \in 1..Len(ret.parts) :
           /\ Hour(ret.parts[j].val_time) = 12
           /\ ret.parts[j].ts_hr_string = <<"tm", 4>>
           /\ Hour(ret.parts[k].val_time) = 13
           /\ NextDayPublished(ret.parts[k].val_time)
           /\ ret.parts[k].ts_hr_string = <<"tm", 27>>
           /\ ret.parts[k].datedir = ret.parts[j].datedir + 1

\* C24 as stated: an artifact of the extended analysis valid at an hour h in
\* 13..23 whose run of the day after is not published at the wall clock is
\* tm(16 - h) of the 16z run of the day of its valid time, also for h in
\* 17..23, and is in the manifest
C24_FallbackCurrentDay ==
    ExtBuilt =>
        \A k \in 1..Len(ret.parts) :
            LET val_time == ret.parts[k].val_time
                h == Hour(val_time)
            IN  (h >= 13 /\ ~NextDayPublished(val_time)) =>
                    SourcedFrom(k, DateOf(val_time), 16 - h)

\* C24: an artifact of the extended analysis valid at an hour h in 13..23
\* whose run of the day after is not published at the wall clock is, for h in
\* 13..16, tm(16 - h) of the 16z run of the day of its valid time and, for h
\* in 17..23, tm(40 - h) of the unpublished 16z run of the day after; it is in
\* the manifest in both cases
C24_FallbackSource ==
    ExtBuilt =>
        \A k \in 1..Len(ret.parts) :
            LET val_time == ret.parts[k].val_time
                h == Hour(val_time)
            IN  (h >= 13 /\ ~NextDayPublished(val_time)) =>
                    IF h <= 16
                    THEN SourcedFrom(k, DateOf(val_time), 16 - h)
                    ELSE SourcedFrom(k, DateOf(val_time) + 1, 40 - h)

\* a manifest with an artifact valid at 16z and one valid at 17z whose run of
\* the day after is not published
C24_Witness ==
    /\ ExtBuilt
    /\ \E j, k \in 1..Len(ret.parts) :
           /\ Hour(ret.parts[j].val_time) = 16
           /\ ~NextDayPublished(ret.parts[j].val_time)
           /\ ret.filelist[j].ts_hr_string = <<"tm", 0>>
           /\ Hour(ret.parts[k].val_time) = 17
           /\ ~NextDayPublished(ret.parts[k].val_time)
           /\ ret.filelist[k].ts_hr_string = <<"tm", 23>>
           /\ ret.filelist[k].datedir = ret.filelist[j].datedir + 1

----------------------------------------------------------------------------
(* the counter and the source runs of the splicer (SpecBuild) *)

\* the rows k and k + 1 of the walk are Extended: the walk, going backward,
\* passes from row k + 1 to row k in Extended mode
ExtendedStep(k) ==
    /\ k + 1 <= NRequested - 3
    /\ Extended(ret.parts[k])
    /\ Extended(ret.parts[k + 1])

\* the counter of an Extended row, which is its offset
Counter(row) == row.ts_hr_string[2]

\* C25 as stated: at a step of the walk in Extended mode the counter goes up
\* by 1 and the source run stays the same, but after 27 the counter is 4 and
\* the source run is the 16z run of one day later
C25_DateIncrementsAtWrap ==
    Spliced =>
        \A k \in 1..(NRequested - 4) :
            ExtendedStep(k) =>
                IF Counter(ret.parts[k + 1]) = 27
                THEN /\ Counter(ret.parts[k]) = 4
                     /\ ret.parts[k].datedir = ret.parts[k + 1].datedir + 1
                ELSE /\ Counter(ret.parts[k]) = Counter(ret.parts[k + 1]) + 1
                     /\ ret.parts[k].datedir = ret.parts[k + 1].datedir

\* C25: at a step of the walk in Extended mode the counter goes up by 1 and
\* the source run stays the same, but after 27 the counter is 4 and the
\* source run is the 16z run of one day earlier; every source run is a 16z
\* run
C25_DateStepsBackAtWrap ==
    Spliced =>
        \A k \in 1..(NRequested - 4) :
            ExtendedStep(k) =>
                /\ ret.parts[k].ref_hr_string = 16
                /\ ret.parts[k + 1].ref_hr_string = 16
                /\ IF Counter(ret.parts[k + 1]) = 27
                   THEN /\ Counter(ret.parts[k]) = 4
                        /\ ret.parts[k].datedir = ret.parts[k + 1].datedir - 1
                   ELSE /\ Counter(ret.parts[k]) = Counter(ret.parts[k + 1]) + 1
                        /\ ret.parts[k].datedir = ret.parts[k + 1].datedir

\* a splice whose walk passes in Extended mode from counter 16 to 17 within
\* one source run and wraps from 27 to 4 twice
C25_Witness ==
    /\ Spliced
    /\ \E k \in 1..(NRequested - 4) :
           /\ ExtendedStep(k)
           /\ Counter(ret.parts[k + 1]) = 16
           /\ Counter(ret.parts[k]) = 17
           /\ ret.parts[k].datedir = ret.parts[k + 1].datedir
    /\ \E j, k \in 1..(NRequested - 4) :
           /\ j < k
           /\ ExtendedStep(j) /\ ExtendedStep(k)
           /\ Counter(ret.parts[j + 1]) = 27 /\ Counter(ret.parts[j]) = 4
           /\ Counter(ret.parts[k + 1]) = 27 /\ Counter(ret.parts[k]) = 4
           /\ ret.parts[j].datedir < ret.parts[k].datedir

----------------------------------------------------------------------------
(* latest_ana outside conus (SpecBuild) *)

\* build_one_filelist has returned the manifest of latest_ana for a domain
\* other than conus
LatestBuilt ==
    /\ call.op = "build_one_filelist"
    /\ call.config = "latest_ana"
    /\ call.domain # "conus"
    /\ ret.ok

\* the rows of the artifacts of the manifest, in order
Kept == RowsInRange(ret.parts, ret.list_start, ret.list_end)

\* the row follows the tm02 convention: it is read from the run of the hour
\* of its valid time + 2h, at tm02, or at tm01 with the minutes to the hour
FollowsTm02(row) ==
    /\ row.datedir = DateOf(row.val_time + Hours(2))
    /\ row.ref_hr_string = Hour(row.val_time + Hours(2))
    /\ IF Minute(row.val_time) = 0
       THEN row.ts_hr_string \in {<<"tm", 2>>, <<"tm", 2, 0>>}
       ELSE row.ts_hr_string = <<"tm", 1, 60 - Minute(row.val_time)>>

\* C26: the manifest of latest_ana for a domain other than conus holds
\* artifacts of the standard analysis only; the last is tm00 and the second
\* to last tm01 of the run issued at the final valid time, and every other
\* one follows the tm02 convention, at timesteps of 1 hour and of 15 minutes
C26_FinalTwoBreak ==
    LatestBuilt =>
        \A k \in 1..Len(Kept) :
            /\ Standard(Kept[k])
            /\ k = Len(Kept) =>
                   /\ RunTime(Kept[k]) = Kept[Len(Kept)].val_time
                   /\ Kept[k].ts_hr_string \in {<<"tm", 0>>, <<"tm", 0, 0>>}
            /\ k = Len(Kept) - 1 =>
                   /\ RunTime(Kept[k]) = Kept[Len(Kept)].val_time
                   /\ Kept[k].ts_hr_string \in {<<"tm", 1>>, <<"tm", 1, 0>>}
            /\ k < Len(Kept) - 1 => FollowsTm02(Kept[k])

----------------------------------------------------------------------------
(* the extended runs a splice reads (SpecBuild) *)

\* the valid time at which the walk crossed over to Extended: the newest
\* valid time with hour 16 before the 3 most recent ones (NaT when there is
\* none)
Crossover ==
    LET at16 == {k \in 1..(NRequested - 3) : Hour(ret.parts[k].val_time) = 16}
    IN  IF at16 = {} THEN NaT
        ELSE ret.parts[CHOOSE k \in at16 : \A j \in at16 : j <= k].val_time

\* C27: every Extended artifact of a splice is read from a 16z run issued not
\* later than the valid time of the crossover, which is at least 3 hours
\* before the final valid time of the manifest
C27_ExtRunsIssued ==
    Spliced =>
        \A k \in 1..Len(ret.parts) :
            Extended(ret.parts[k]) =>
                /\ ret.parts[k].ref_hr_string = 16
                /\ Crossover # NaT
                /\ RunTime(ret.parts[k]) <= Crossover
                /\ Crossover <= ret.list_end - Hours(3)
                /\ RunTime(ret.parts[k]) <= ret.parts[k].val_time + Hours(27)

\* a splice whose crossover is 3 hours before the final valid time, with
\* Extended artifacts of the run issued at the crossover and of the run of
\* the day before
C27_Witness ==
    /\ Spliced
    /\ NRequested > 3
    /\ Crossover = ret.list_end - Hours(3)
    /\ \E j, k \in 1..(NRequested - 3) :
           /\ Extended(ret.parts[j])
           /\ RunTime(ret.parts[j]) = Crossover
           /\ Extended(ret.parts[k])
           /\ RunTime(ret.parts[k]) = Crossover - Days(1)

\* C28: every call of the splicer returns, and an Extended artifact with a
\* counter in 17..27 is read from the 16z run of the day after its valid
\* time, also at the end of a month
C28_NextDayRun ==
    ( /\ call.op = "build_one_filelist"
      /\ call.config = "latest_ana"
      /\ call.domain = "conus" ) =>
        /\ ret.ok
        /\ \A k \in 1..Len(ret.parts) :
               (Extended(ret.parts[k]) /\ Counter(ret.parts[k]) \in 17..27) =>
                   RunTime(ret.parts[k]) =
                       Days(DateOf(ret.parts[k].val_time) + 1) + Hours(16)

----------------------------------------------------------------------------
(* the chunk numbers get_filelists returns (SpecFilelists) *)

\* get_filelists has returned chunks of a manifest of more than one chunk
ReturnedChunks ==
    /\ call.op = "get_filelists"
    /\ ret.ok
    /\ ret.n_chunks > 1

\* C29: the chunk numbers returned of a manifest of more than one chunk are
\* the numbers 1..m for some m: with a chunk every chunk of a lower number
\* is returned, and the maximum source reference time of the chunks never
\* decreases with the chunk number
C29_ContiguousPrefix ==
    ReturnedChunks =>
        /\ \A k \in ret.keep : \A j \in 1..(k - 1) : j \in ret.keep
        /\ \A c, d \in 1..ret.n_chunks :
               c <= d => ret.max_list_time[c] <= ret.max_list_time[d]

\* a call that returns more than one chunk and cuts chunks: infeasible ones
\* and a feasible one above the largest feasible requested store period
C29_Witness ==
    /\ ReturnedChunks
    /\ Cardinality(ret.keep) > 1
    /\ \E c \in 1..ret.n_chunks :
           /\ c \notin ret.keep
           /\ ret.max_list_time[c] <= ret.last_ana_valtime
    /\ \E c \in 1..ret.n_chunks :
           ret.max_list_time[c] > ret.last_ana_valtime

----------------------------------------------------------------------------
(* properties of get_recent_ana over the passes of bias_main (SpecBias) *)

RecentAnaReturned == call.op = "get_recent_ana" /\ ret.ok

\* t is a time of the hourly window [t0 - bias_period days, t0] of the call
InWindow(t) ==
    /\ t >= call.t0 - Days(call.bias_period)
    /\ t <= call.t0
    /\ t % 60 = 0

\* C30: after every call the frame holds no value time outside the hourly
\* window of the call; the files fetched are of valid times of the window
\* that the frame handed in did not hold; a valid time whose retrieval
\* failed is not in the frame returned, and one that failed in the call
\* before and is still in the window is fetched again
C30_RollingWindow ==
    RecentAnaReturned =>
        /\ \A t \in ret.df : InWindow(t)
        /\ \A t \in ret.fetched : InWindow(t) /\ t \notin call.df
        /\ ret.failed \cap ret.df = {}
        /\ \A t \in call.last_failed : InWindow(t) => t \in ret.fetched

====
